---- MODULE Spec2Model ----
(***************************************************************************)
(* Verification model of the subscheck-singbox node-testing pipeline.      *)
(*                                                                         *)
(*   SpecPool : utils/concurrent_tester.py  WorkerPool                     *)
(*   SpecTest : testers/node_tester.py      NodeTester.test_single_node    *)
(*              core/singbox_runner.py      singboxRunner                  *)
(*              utils/resource_manager.py   ProcessManager/ResourceManager *)
(*   SpecPort : utils/resource_manager.py   PortManager                    *)
(*   SpecNodePorts : testers/node_tester.py _allocate_port/_release_port   *)
(*              under concurrent test attempts                             *)
(***************************************************************************)
EXTENDS Integers, Sequences, FiniteSets, TLC

\* ------------------------------------------------------------------ bounds
\* longest node list handed to WorkerPool.run_tests
MaxNodes == 2
\* largest worker_count a pool is constructed with
MaxWorkers == 2
\* largest success_limit a pool is constructed with
MaxLimit == 1

\* largest index argument of test_single_node
MaxIndex == 1
\* probe latencies observed are 1..MaxLatency (ms)
MaxLatency == 2
\* download speeds measured are 1..MaxSpeed (Mbps)
MaxSpeed == 1
\* cancellations delivered to one test task
MaxCancels == 1
\* the clock runs from 0 to MaxTime seconds
MaxTime == 9
\* the test attempts use the first MaxPorts ports above NodeTester.base_port
MaxPorts == 2
\* PortManager's clients use the first MaxPMPorts ports above its base_port
MaxPMPorts == 1
\* total speed limits are 1..MaxRate chunks per second
MaxRate == 1
\* rate-limited readers running at the same time
MaxReaders == 2
\* a read returns 1..MaxRead chunks
MaxRead == 2
\* chunks counted in one second before the count stops
MaxWindow == 12
MaxThreads == 2
MaxCalls == 3
MaxBytes == 2
MaxServers == 2
MaxRests == 2
MaxLines == 2
MaxUrls == 1
MaxProxies == 2
MaxResults == 3
MaxRankSpeed == 2
MaxRankLatency == 2
\* coroutines of the resource book-keeping in flight at once
MaxTasks == 2
\* subscription URLs the sources can name in their bodies
MaxSubs == 2
\* lines of one subscription body
MaxBodyLines == 2
\* calls of parse_nodes_from_content the interpreter nests before it raises
\* RecursionError (its recursion limit, scaled down)
MaxFrames == 3
\* a probe's elapsed time and the timeout of DirectProxyTester are 1..MaxElapsed
MaxElapsed == 3
\* run_tests calls made one after the other in one process
MaxRuns == 2
\* subscription URLs handed to collect_nodes_concurrently
MaxFetchUrls == 3
\* largest max_nodes and largest concurrency of a collect_nodes_concurrently call
MaxCap == 2
\* nodes one subscription yields are 0..MaxYield
MaxYield == 2
\* download URLs a configuration can name
MaxSpeedUrls == 2
\* _test_download_speed calls sharing one NodeTester
MaxSpeedCalls == 2

\* ------------------------------------------------------- program constants
\* NodeTester.base_port
BasePort == 41000
\* NodeTester._port_recycle_delay (seconds)
PortRecycleDelay == 8
\* max_attempts of NodeTester._allocate_port
MaxAttempts == 100
\* retry_count of DirectProxyTester.test_node_direct_connectivity
RetryCount == 3
\* retry_count of NodeTester._test_download_speed
SpeedRetryCount == 3
\* width of the fallback port range of NodeTester._allocate_port
FallbackRange == 5000

\* PortManager.base_port
PMBasePort == 41000
\* PortManager.recycle_delay (seconds)
RecycleDelay == 8
\* PortManager.allocate_port gives up past base_port + ScanLimit
ScanLimit == 1000

\* create_rate_limiter: capacity = rate * 10
BurstFactor == 10
MaxPort == 65535
TopLimit == 10
SummaryTop == 10

\* an optional value: Null is Python None, Some(v) a value
Null == << >>
Some(v) == << v >>

\* the end-of-stream marker (Python None) on task_queue and on result_queue
NoneTask == 0
NoneResult == [index |-> 0, status |-> "None"]

VARIABLES
  \* ---- WorkerPool (concurrent_tester.py:21-37) and the tasks run_tests creates
  num_nodes,         \* len(nodes) of the run_tests call
  worker_count,      \* self.worker_count
  success_limit,     \* self.success_limit
  task_queue,        \* self.task_queue : node indices, None = end-of-stream marker
  result_queue,      \* self.result_queue : Results, None = end marker
  results,           \* self.results
  progress,          \* self.progress
  successful_count,  \* self.successful_count
  force_stop,        \* self.force_stop
  workers,           \* self.workers : the worker ids run_tests created
  wpc,               \* position of each worker coroutine
  wtask,             \* node index a worker is testing
  dpc,               \* position of distribute_tasks
  dist_index,        \* loop variable of distribute_tasks (nodes fed so far)
  dist_sent,         \* end-of-stream markers put so far
  cpc,               \* position of collect_results
  rpc,               \* position of run_tests
  stats,             \* global_stats counters (rate_limiter.py:147-154)
  \* ---- one NodeTester.test_single_node call and its singboxRunner
  tpc,               \* position of the test_single_node coroutine
  index,             \* the index argument
  net,               \* what the node and the network answer to each probe
  socks_port,        \* local socks_port
  result,            \* the result dict
  exc,               \* the exception propagating through the finally blocks
  aexit_raised,      \* __aexit__ itself is being left by an exception
  direct_latency,    \* local direct_latency
  socks5_latency,    \* local socks5_latency
  process,           \* the engine subprocess of singboxRunner._process: none,
                     \*   running, exited (by itself), terminated (by the core)
  config_file,       \* the temp file behind singboxRunner._config_file_path
  cancels,           \* cancellations delivered to the test task so far
  \* ---- NodeTester (node_tester.py:16-23)
  nt_active_processes, \* self._active_processes
  nt_used_ports,     \* self._used_ports
  nt_released_ports, \* self._released_ports : port -> release time
  \* ---- ResourceManager singleton (resource_manager.py:227-230, 311-312)
  active_processes,  \* process_manager.active_processes
  allocated_ports,   \* port_manager.allocated_ports : port -> node_name, allocated_at
  released_ports,    \* port_manager.released_ports : port -> release time
  cleanup_pc,        \* position of the signal-scheduled cleanup_all task
  \* ---- environment
  now,               \* the clock (time.time / time.monotonic), in seconds
  os_bound,          \* loopback ports some other process has bound
  release_log,       \* history of PortManager: port -> last release, cleanup since
  \* ---- concurrent test attempts as clients of the NodeTester port book
  hold,              \* socks_port of each attempt
  hpc,               \* position of each attempt: idle, testing, released
  \* ---- history of the pool run
  any_failed,        \* some test of the run failed: a failed Result or an Exception
  \* ---- TokenBucket (rate_limiter.py:20-32) and the readers of the speed stage
  rate,              \* self.rate, in chunks per second
  tokens,            \* self.tokens
  last_update,       \* self.last_update
  reader_wake,       \* time until which each rate-limited reader sleeps
  window_bytes,      \* history: chunks received by all readers in the current second
  \* ---- GlobalStats (rate_limiter.py:147-154) and the threads calling it
  gs_lock,           \* self.lock : 0 = free, else the thread holding it
  total_bytes,       \* self.total_bytes
  thr_pc,            \* position of each thread
  thr_arg,           \* argument of the call a thread is in
  thr_tmp,           \* the value a thread loaded for its += 
  calls,             \* history: calls made so far
  done_bytes,        \* history: sum of bytes_count over finished add_bytes calls
  done_success,      \* history: finished add_node_tested(True) calls
  done_failed,       \* history: finished add_node_tested(False) calls
  contended,         \* history: a lock was taken while another thread wanted it
  \* ---- main and GoSubsChecker.run_speed_test (main.py:442-693, 946-1004)
  main_pc,           \* position of the program
  go_executable,     \* self.go_executable is set
  subscription_urls, \* number of subscription links parse_subscriptions finds
  fetched,           \* the lines the subscription sources serve
  all_nodes,         \* local all_nodes
  unique_nodes,      \* local unique_nodes
  run_result,        \* the dict run_speed_test returns
  exit_code,         \* the code passed to sys.exit
  interrupted,       \* history: the user interrupted the program
  pipeline_error,    \* history: compilation failed or the Go stage raised
  \* ---- the parsers (base_parser.py, clash_parser.py) and one call of each
  parse_pc,          \* none, url, clash (call pending), url_done, clash_done
  url,               \* the argument of parse_node_url
  proxies,           \* the argument of parse_clash_proxies
  parsed,            \* outcome of parse_node_url: raised, or the node / None
  clash_out,         \* outcome of parse_clash_proxies: raised, or the nodes
  \* ---- the ranker: StatsMonitor (stats_monitor.py:39-44) and the uploader
  node_results,      \* self.node_results, in the order the results arrived
  top_nodes,         \* what get_top_nodes returned
  summary_top,       \* summary['top_nodes'] of _generate_summary
  rank_done,         \* which of the two have been computed
  \* ---- history of the pool run
  started,           \* the node indices whose test was started, in order
  after_cap,         \* tests that completed after the success cap was reached
  \* ---- history of the resource book-keeping
  pm_ret,            \* what the last PortManager.allocate_port call returned
  teardown,          \* what __aexit__ has done to the engine so far, in order
  \* ---- the asyncio locks of the book-keeping and the coroutines using them
  lk_holder,         \* per lock: the task inside its "async with", 0 when free
  co_prog,           \* per task: the coroutine it runs, "idle" when none
  co_pc,             \* per task: the position in the coroutine
  co_asleep,         \* per task: suspended in a sleep or a subprocess wait
  running,           \* the task the event loop is running, 0 between steps
  \* ---- _fetch_and_parse_single and parse_nodes_from_content (main.py:213-440)
  sub_web,           \* what each subscription URL serves: the lines of its body
  px_stack,          \* the calls of parse_nodes_from_content in progress
  px_pc,             \* idle, parsing, returned, recursion_error
  px_out,            \* number of nodes _fetch_and_parse_single returned
  \* ---- DirectProxyTester (direct_proxy_tester.py:24-26, 291-349)
  dp_timeout,        \* self.timeout
  dp_node,           \* the node argument: its type, whether server and port are set
  dp_pc,             \* idle, attempt, returned
  dp_attempt,        \* attempts made so far
  dp_event,          \* what the last attempt met on the network
  dp_result,         \* what test_node_direct_connectivity returned
  \* ---- the process that runs the pool
  runs,              \* run_tests calls that have returned and been followed by another
  \* ---- collect_nodes_concurrently (main.py:223-267)
  num_urls,          \* len(urls)
  max_nodes,         \* the max_nodes argument
  concurrency,       \* the concurrency argument
  semaphore,         \* free permits of the local semaphore
  collected,         \* len(collected)
  tasks,             \* per URL: the position of its worker task
  cmain,             \* position of collect_nodes_concurrently itself
  consumed,          \* completions the as_completed loop has awaited
  collect_out,       \* length of the list returned
  \* ---- ProgressReporter (concurrent_tester.py:182-222)
  rep_pc,            \* position of start_reporting: none, loop, returned
  \* ---- the read operations of GlobalStats and StatsMonitor and their callers
  sm_lock,           \* StatsMonitor.lock: 0 = free, else the thread holding it
  rd_op,             \* per thread: the read operation it is in, "idle" when none
  rd_at,             \* per thread: the position in that operation
  \* ---- NodeTester.config and the _test_download_speed calls sharing it
  speed_url,         \* config['test_settings']['speed_url']
  speed_urls,        \* config['test_settings']['speed_urls']
  sd_pc,             \* per call: idle, switched, retry_wait, next_wait, done
  sd_urls,           \* per call: the local speed_urls
  sd_k,              \* per call: the position of test_url in its speed_urls
  original_speed_url,\* per call: the local original_speed_url
  sd_retry,          \* per call: the loop variable retry
  speed_url_before,  \* history: speed_url before any call began
  sd_foreign,        \* history: a measurement downloaded from another URL than its call's test_url
  \* ---- singboxRunner._generate_singbox_config (singbox_runner.py:214-480)
  gen_node,          \* the vless node the runner was constructed with
  gen_outbound       \* the outbound of the generated configuration, Null before

poolVars == << num_nodes, worker_count, success_limit, task_queue, result_queue,
               results, progress, successful_count, force_stop, workers, wpc,
               wtask, dpc, dist_index, dist_sent, cpc, rpc, stats >>

testVars == << tpc, index, net, socks_port, result, exc, aexit_raised,
               direct_latency, socks5_latency, process, config_file, cancels >>

nodeTesterVars == << nt_active_processes, nt_used_ports, nt_released_ports >>

resourceVars == << active_processes, allocated_ports, released_ports, cleanup_pc >>

bucketVars == << rate, tokens, last_update, reader_wake, window_bytes >>

gsVars == << gs_lock, total_bytes, thr_pc, thr_arg, thr_tmp, calls, done_bytes,
             done_success, done_failed, contended >>

pipeVars == << main_pc, go_executable, subscription_urls, fetched, all_nodes,
               unique_nodes, run_result, exit_code, interrupted, pipeline_error >>

parseVars == << parse_pc, url, proxies, parsed, clash_out >>

rankVars == << node_results, top_nodes, summary_top, rank_done >>

poolHist == << started, after_cap >>

resHist == << pm_ret, teardown >>

lockVars == << lk_holder, co_prog, co_pc, co_asleep, running >>

nestVars == << sub_web, px_stack, px_pc, px_out >>

\* the components added last, one group each
directVars == << dp_timeout, dp_node, dp_pc, dp_attempt, dp_event, dp_result >>

runVars == << runs >>

collectVars == << num_urls, max_nodes, concurrency, semaphore, collected, tasks,
                 cmain, consumed, collect_out >>

reportVars == << rep_pc >>

readVars == << sm_lock, rd_op, rd_at >>

speedVars == << speed_url, speed_urls, sd_pc, sd_urls, sd_k, original_speed_url,
               sd_retry, speed_url_before, sd_foreign >>

genVars == << gen_node, gen_outbound >>

lateVars == << nestVars, directVars, runVars, collectVars, reportVars, readVars,
               speedVars, genVars >>

\* the groups no action of the earlier components writes
extRest == << lockVars, lateVars >>

extVars == << poolHist, resHist, extRest >>

utilRest == << bucketVars, gsVars, pipeVars, parseVars, rankVars >>

utilVars == << utilRest, extVars >>

envRest == << now, os_bound, release_log, hold, hpc, any_failed, utilRest >>

envVars == << now, os_bound, release_log, hold, hpc, any_failed, utilVars >>

nonPoolVars == << testVars, nodeTesterVars, resourceVars, envVars >>

vars == << poolVars, testVars, nodeTesterVars, resourceVars, envVars >>

WorkerIds == 1..MaxWorkers

\* the concurrent test attempts of the NodeTester port specification
Holders == {1, 2}

\* the threads reading through one RateLimitedReader each
Readers == 1..MaxReaders

Min(a, b) == IF a < b THEN a ELSE b

\* the threads calling into global_stats
Threads == 1..MaxThreads

\* global_stats as the module creates it (rate_limiter.py:147-154, 200), no
\* thread inside it
GsIdle ==
  /\ gs_lock = 0
  /\ total_bytes = 0
  /\ thr_pc = [t \in Threads |-> "idle"]
  /\ thr_arg = [t \in Threads |-> 0]
  /\ thr_tmp = [t \in Threads |-> 0]
  /\ calls = 0
  /\ done_bytes = 0
  /\ done_success = 0
  /\ done_failed = 0
  /\ contended = FALSE

\* the port texts an input can carry: no port at all, a text that is not a
\* number, or the decimal text of a number
PortValues == {0 - 1, 0, 1, MaxPort, MaxPort + 1}

PortTexts ==
  {[text |-> "absent", value |-> 0], [text |-> "abc", value |-> 0]}
    \cup {[text |-> "digits", value |-> v] : v \in PortValues}

\* a node URI: its scheme, the port text, and whether the rest of it (the
\* base64 payload, the credentials) is there and decodes
UrlSchemes == {"vmess", "vless", "trojan", "ss", "ssr", "hysteria", "hysteria2",
               "tuic", "wireguard", "https", "#"}

Urls == [scheme : UrlSchemes, port : PortTexts, body : {"ok", "garbled"}]

NoUrl == [scheme |-> "#", port |-> [text |-> "absent", value |-> 0], body |-> "ok"]

\* the outcome of a call: it raised, or it returned None or a node
Returned(n) == [raised |-> FALSE, node |-> n]
Raised == [raised |-> TRUE, node |-> Null]

\* no parser call
ParseIdle ==
  /\ parse_pc = "none"
  /\ url = NoUrl
  /\ proxies = << >>
  /\ parsed = Returned(Null)
  /\ clash_out = [raised |-> FALSE, nodes |-> << >>]

\* a StatsMonitor without results (stats_monitor.py:39-44)
RankIdle ==
  /\ node_results = << >>
  /\ top_nodes = << >>
  /\ summary_top = << >>
  /\ rank_done = {}

\* the program has not been started
PipeIdle ==
  /\ main_pc = "none"
  /\ go_executable = FALSE
  /\ subscription_urls = 0
  /\ fetched = << >>
  /\ all_nodes = << >>
  /\ unique_nodes = << >>
  /\ run_result = Null
  /\ exit_code = Null
  /\ interrupted = FALSE
  /\ pipeline_error = FALSE

\* no token bucket: create_rate_limiter returned None (rate_limiter.py:214-215)
BucketIdle ==
  /\ rate = 0
  /\ tokens = 0
  /\ last_update = 0
  /\ reader_wake = [r \in Readers |-> 0]
  /\ window_bytes = 0

\* no test has been started
PoolHistIdle ==
  /\ started = << >>
  /\ after_cap = 0

\* allocate_port has not been called, no engine has been torn down
ResHistIdle ==
  /\ pm_ret = << >>
  /\ teardown = << >>

Tasks == 1..MaxTasks

\* NodeTester._port_lock, PortManager._lock, ProcessManager._cleanup_lock
Locks == {"port_lock", "pm_lock", "cleanup_lock"}

\* every lock is free and no coroutine of the book-keeping is in flight
LocksIdle ==
  /\ lk_holder = [l \in Locks |-> 0]
  /\ co_prog = [t \in Tasks |-> "idle"]
  /\ co_pc = [t \in Tasks |-> 0]
  /\ co_asleep = [t \in Tasks |-> FALSE]
  /\ running = 0

SubUrls == 1..MaxSubs

\* no subscription is being fetched
NestIdle ==
  /\ sub_web = [u \in SubUrls |-> << >>]
  /\ px_stack = << >>
  /\ px_pc = "idle"
  /\ px_out = 0

\* what an attempt meets: how the TCP connect to server:port ended, what
\* followed an established connection, and the time since the attempt began
NetEvent(connect, after, elapsed) ==
  [connect |-> connect, after |-> after, elapsed |-> elapsed]

NoEvent == NetEvent("none", "none", 0)

\* no direct probe has been asked for
DirectIdle ==
  /\ dp_timeout = 1
  /\ dp_node = [type |-> "other", addressed |-> FALSE]
  /\ dp_pc = "idle"
  /\ dp_attempt = 0
  /\ dp_event = NoEvent
  /\ dp_result = Null

\* the first run of the process
RunsIdle == runs = 0

FetchUrls == 1..MaxFetchUrls

\* collect_nodes_concurrently has not been called
CollectIdle ==
  /\ num_urls = 0
  /\ max_nodes = 1
  /\ concurrency = 1
  /\ semaphore = 0
  /\ collected = 0
  /\ tasks = [u \in FetchUrls |-> "none"]
  /\ cmain = "idle"
  /\ consumed = 0
  /\ collect_out = 0

\* no reporter has been started
ReportIdle == rep_pc = "none"

\* no thread is reading the statistics
ReadIdle ==
  /\ sm_lock = 0
  /\ rd_op = [t \in Threads |-> "idle"]
  /\ rd_at = [t \in Threads |-> 0]

SpeedCalls == 1..MaxSpeedCalls

\* no speed test has been started; speed_url names the first download URL
SpeedIdle ==
  /\ speed_url = 1
  /\ speed_urls = << >>
  /\ sd_pc = [c \in SpeedCalls |-> "idle"]
  /\ sd_urls = [c \in SpeedCalls |-> << >>]
  /\ sd_k = [c \in SpeedCalls |-> 0]
  /\ original_speed_url = [c \in SpeedCalls |-> 0]
  /\ sd_retry = [c \in SpeedCalls |-> 0]
  /\ speed_url_before = 1
  /\ sd_foreign = FALSE

\* a vless node as the parsers hand it on: server, sni (Null when the key is
\* absent), network, security and the tls key
VlessNode(network, security, tls, sni) ==
  [server |-> "server", network |-> network, security |-> security,
   tls |-> tls, sni |-> sni]

\* no configuration has been generated
GenIdle ==
  /\ gen_node = VlessNode("tcp", "none", FALSE, Null)
  /\ gen_outbound = Null

LateIdle ==
  /\ NestIdle
  /\ DirectIdle
  /\ RunsIdle
  /\ CollectIdle
  /\ ReportIdle
  /\ ReadIdle
  /\ SpeedIdle
  /\ GenIdle

ExtIdle == PoolHistIdle /\ ResHistIdle /\ LocksIdle /\ LateIdle

UtilIdle == BucketIdle /\ GsIdle /\ PipeIdle /\ ParseIdle /\ RankIdle /\ ExtIdle

\* ============================================================ WorkerPool

\* A Result as the pool sees it: the node it belongs to and its status.
PoolResult(i, s) == [index |-> i, status |-> s]

\* WorkerPool.__init__ ; the pool is constructed with any worker_count >= 1 and
\* success_limit >= 0, and run_tests will be handed any node list.
PoolInit ==
  /\ num_nodes \in 0..MaxNodes
  /\ worker_count \in 1..MaxWorkers
  /\ success_limit \in 0..MaxLimit
  /\ task_queue = << >>
  /\ result_queue = << >>
  /\ results = << >>
  /\ progress = 0
  /\ successful_count = 0
  /\ force_stop = FALSE
  /\ workers = {}
  /\ wpc = [w \in WorkerIds |-> "none"]
  /\ wtask = [w \in WorkerIds |-> 0]
  /\ dpc = "none"
  /\ dist_index = 0
  /\ dist_sent = 0
  /\ cpc = "none"
  /\ rpc = "init"
  /\ stats = [total_nodes_tested |-> 0, successful_nodes |-> 0, failed_nodes |-> 0]

\* (mutant) the success-cap test with > in place of >=
LimitReached_OffByOne == success_limit > 0 /\ successful_count > success_limit

\* (mutant) the success cap is never seen as reached
LimitReached_Never == FALSE

\* the success-cap test of worker (line 64) and distribute_tasks (line 106)
LimitReached == success_limit > 0 /\ successful_count >= success_limit

\* (mutant) the stop flag is not looked at
StopRequested_Never == FALSE

\* the stop test of worker (line 59) and distribute_tasks (line 101)
StopRequested == force_stop

\* GlobalStats.add_node_tested
add_node_tested(s, success) ==
  [s EXCEPT !.total_nodes_tested = @ + 1,
            !.successful_nodes = IF success THEN @ + 1 ELSE @,
            !.failed_nodes = IF success THEN @ ELSE @ + 1]

\* run_tests, lines 153-164: create the workers, the distributor, the collector
RunTestsStart ==
  /\ rpc = "init"
  /\ LET actual_worker_count == Min(worker_count, num_nodes) IN
       /\ workers' = 1..actual_worker_count
       /\ wpc' = [w \in WorkerIds |-> IF w <= actual_worker_count THEN "get" ELSE "none"]
  /\ dpc' = "feed"
  /\ cpc' = "collect"
  /\ rpc' = "gather"
  /\ UNCHANGED << num_nodes, worker_count, success_limit, task_queue, result_queue,
                  results, progress, successful_count, force_stop, wtask,
                  dist_index, dist_sent, stats >>
  /\ UNCHANGED nonPoolVars

\* worker, lines 52-54: the dequeued task is the end-of-stream marker
WorkerGetNone(w) ==
  /\ wpc[w] = "get"
  /\ task_queue # << >>
  /\ Head(task_queue) = NoneTask
  /\ task_queue' = Tail(task_queue)
  /\ wpc' = [wpc EXCEPT ![w] = "exit"]
  /\ UNCHANGED << num_nodes, worker_count, success_limit, result_queue, results,
                  progress, successful_count, force_stop, workers, wtask, dpc,
                  dist_index, dist_sent, cpc, rpc, stats >>
  /\ UNCHANGED nonPoolVars

\* worker, lines 52-71: dequeue a task; leave on force_stop or on the success
\* cap, otherwise call test_func
WorkerGetTask(w) ==
  /\ wpc[w] = "get"
  /\ task_queue # << >>
  /\ Head(task_queue) # NoneTask
  /\ task_queue' = Tail(task_queue)
  /\ IF StopRequested \/ LimitReached
       THEN /\ wpc' = [wpc EXCEPT ![w] = "exit"]
            /\ UNCHANGED << wtask, started >>
       ELSE /\ wpc' = [wpc EXCEPT ![w] = "testing"]
            /\ wtask' = [wtask EXCEPT ![w] = Head(task_queue)]
            /\ started' = Append(started, Head(task_queue))
  /\ UNCHANGED << num_nodes, worker_count, success_limit, result_queue, results,
                  progress, successful_count, force_stop, workers, dpc,
                  dist_index, dist_sent, cpc, rpc, stats >>
  /\ UNCHANGED << testVars, nodeTesterVars, resourceVars, now, os_bound,
                  release_log, hold, hpc, any_failed, utilRest, after_cap, resHist, extRest >>

\* worker, lines 71-82: test_func returned.  outcome "none" is a falsy result.
\* result_queue is an unbounded asyncio.Queue, so put() never suspends and the
\* put, the count and the progress update happen in one scheduling step.
WorkerTestReturns(w, outcome) ==
  /\ wpc[w] = "testing"
  /\ result_queue' = IF outcome # "none"
                       THEN Append(result_queue, PoolResult(wtask[w], outcome))
                       ELSE result_queue
  /\ successful_count' = IF outcome = "success" THEN successful_count + 1
                                                ELSE successful_count
  /\ progress' = progress + 1
  /\ stats' = add_node_tested(stats, outcome = "success")
  /\ wpc' = [wpc EXCEPT ![w] = "get"]
  /\ wtask' = [wtask EXCEPT ![w] = 0]
  /\ any_failed' = (any_failed \/ outcome = "failed")
  /\ after_cap' = IF success_limit > 0 /\ successful_count >= success_limit
                    THEN after_cap + 1 ELSE after_cap
  /\ UNCHANGED << num_nodes, worker_count, success_limit, task_queue, results,
                  force_stop, workers, dpc, dist_index, dist_sent, cpc, rpc >>
  /\ UNCHANGED << testVars, nodeTesterVars, resourceVars, now, os_bound,
                  release_log, hold, hpc, utilRest, started, resHist, extRest >>

\* worker, lines 84-86: test_func raised an Exception; the worker logs it and
\* loops
WorkerTestRaises(w) ==
  /\ wpc[w] = "testing"
  /\ wpc' = [wpc EXCEPT ![w] = "get"]
  /\ wtask' = [wtask EXCEPT ![w] = 0]
  /\ any_failed' = TRUE
  /\ after_cap' = IF success_limit > 0 /\ successful_count >= success_limit
                    THEN after_cap + 1 ELSE after_cap
  /\ UNCHANGED << num_nodes, worker_count, success_limit, task_queue, result_queue,
                  results, progress, successful_count, force_stop, workers, dpc,
                  dist_index, dist_sent, cpc, rpc, stats >>
  /\ UNCHANGED << testVars, nodeTesterVars, resourceVars, now, os_bound,
                  release_log, hold, hpc, utilRest, started, resHist, extRest >>

\* (mutant) the feeding loop puts every node on the queue twice
DistributeFeed_Twice ==
  /\ dpc = "feed"
  /\ IF dist_index < num_nodes /\ ~StopRequested /\ ~LimitReached
       THEN /\ task_queue' = Append(Append(task_queue, dist_index + 1), dist_index + 1)
            /\ dist_index' = dist_index + 1
            /\ dpc' = dpc
       ELSE /\ dpc' = "signal"
            /\ UNCHANGED << task_queue, dist_index >>
  /\ UNCHANGED << num_nodes, worker_count, success_limit, result_queue, results,
                  progress, successful_count, force_stop, workers, wpc, wtask,
                  dist_sent, cpc, rpc, stats >>
  /\ UNCHANGED nonPoolVars

\* distribute_tasks, lines 99-110: one iteration of the feeding loop
DistributeFeed ==
  /\ dpc = "feed"
  /\ IF dist_index < num_nodes /\ ~StopRequested /\ ~LimitReached
       THEN /\ task_queue' = Append(task_queue, dist_index + 1)
            /\ dist_index' = dist_index + 1
            /\ dpc' = dpc
       ELSE /\ dpc' = "signal"
            /\ UNCHANGED << task_queue, dist_index >>
  /\ UNCHANGED << num_nodes, worker_count, success_limit, result_queue, results,
                  progress, successful_count, force_stop, workers, wpc, wtask,
                  dist_sent, cpc, rpc, stats >>
  /\ UNCHANGED nonPoolVars

\* (mutant) one end-of-stream marker fewer than there are workers
MarkersToSend_OneShort == Cardinality(workers) - 1

\* distribute_tasks, line 113: for _ in self.workers
MarkersToSend == Cardinality(workers)

\* distribute_tasks, lines 113-116: one end-of-stream marker per worker
DistributeSignal ==
  /\ dpc = "signal"
  /\ IF dist_sent < MarkersToSend
       THEN /\ task_queue' = Append(task_queue, NoneTask)
            /\ dist_sent' = dist_sent + 1
            /\ dpc' = dpc
       ELSE /\ dpc' = "done"
            /\ UNCHANGED << task_queue, dist_sent >>
  /\ UNCHANGED << num_nodes, worker_count, success_limit, result_queue, results,
                  progress, successful_count, force_stop, workers, wpc, wtask,
                  dist_index, cpc, rpc, stats >>
  /\ UNCHANGED nonPoolVars

\* collect_results, lines 126-131: a queued item arrives
CollectGet ==
  /\ cpc = "collect"
  /\ result_queue # << >>
  /\ result_queue' = Tail(result_queue)
  /\ IF Head(result_queue) = NoneResult
       THEN cpc' = "done" /\ UNCHANGED results
       ELSE cpc' = cpc /\ results' = Append(results, Head(result_queue))
  /\ UNCHANGED << num_nodes, worker_count, success_limit, task_queue, progress,
                  successful_count, force_stop, workers, wpc, wtask, dpc,
                  dist_index, dist_sent, rpc, stats >>
  /\ UNCHANGED nonPoolVars

\* collect_results, line 126: the 1 s timer of wait_for runs out on an empty
\* queue.  The timer cancels the pending get(); the collector coroutine is
\* resumed with TimeoutError in a later step of the event loop, and a Result
\* put in between wakes nobody and stays queued.
CollectTimerFires ==
  /\ cpc = "collect"
  /\ result_queue = << >>
  /\ cpc' = "timed_out"
  /\ UNCHANGED << num_nodes, worker_count, success_limit, task_queue, result_queue,
                  results, progress, successful_count, force_stop, workers, wpc,
                  wtask, dpc, dist_index, dist_sent, rpc, stats >>
  /\ UNCHANGED nonPoolVars

\* collect_results, lines 133-137: the collector resumes in the except clause;
\* it stops when every worker task is done, otherwise it waits again
CollectTimeout ==
  /\ cpc = "timed_out"
  /\ cpc' = IF \A w \in workers : wpc[w] = "exit" THEN "done" ELSE "collect"
  /\ UNCHANGED << num_nodes, worker_count, success_limit, task_queue, result_queue,
                  results, progress, successful_count, force_stop, workers, wpc,
                  wtask, dpc, dist_index, dist_sent, rpc, stats >>
  /\ UNCHANGED nonPoolVars

\* run_tests, lines 167-170: gather(distributor, *workers) finished
RunTestsGathered ==
  /\ rpc = "gather"
  /\ dpc = "done"
  /\ \A w \in workers : wpc[w] = "exit"
  /\ result_queue' = Append(result_queue, NoneResult)
  /\ rpc' = "await_collector"
  /\ UNCHANGED << num_nodes, worker_count, success_limit, task_queue, results,
                  progress, successful_count, force_stop, workers, wpc, wtask,
                  dpc, dist_index, dist_sent, cpc, stats >>
  /\ UNCHANGED nonPoolVars

\* run_tests, lines 171-174: the collector finished; return self.results
RunTestsReturn ==
  /\ rpc = "await_collector"
  /\ cpc = "done"
  /\ rpc' = "returned"
  /\ UNCHANGED << num_nodes, worker_count, success_limit, task_queue, result_queue,
                  results, progress, successful_count, force_stop, workers, wpc,
                  wtask, dpc, dist_index, dist_sent, cpc, stats >>
  /\ UNCHANGED nonPoolVars

\* WorkerPool.stop, lines 176-179
Stop ==
  /\ rpc # "returned"
  /\ ~force_stop
  /\ force_stop' = TRUE
  /\ UNCHANGED << num_nodes, worker_count, success_limit, task_queue, result_queue,
                  results, progress, successful_count, workers, wpc, wtask, dpc,
                  dist_index, dist_sent, cpc, rpc, stats >>
  /\ UNCHANGED nonPoolVars

PoolNext ==
  \/ RunTestsStart
  \/ \E w \in WorkerIds : WorkerGetNone(w)
  \/ \E w \in WorkerIds : WorkerGetTask(w)
  \/ \E w \in WorkerIds, o \in {"success", "failed", "none"} : WorkerTestReturns(w, o)
  \/ \E w \in WorkerIds : WorkerTestRaises(w)
  \/ DistributeFeed
  \/ DistributeSignal
  \/ CollectGet
  \/ CollectTimerFires
  \/ CollectTimeout
  \/ RunTestsGathered
  \/ RunTestsReturn
  \/ Stop

\* the event loop runs every task that can run, every test call returns or
\* raises, and the timer of wait_for fires; stop() may or may not be called
PoolFairness ==
  /\ WF_vars(RunTestsStart \/ RunTestsGathered \/ RunTestsReturn)
  /\ \A w \in WorkerIds :
       WF_vars(\/ WorkerGetNone(w) \/ WorkerGetTask(w) \/ WorkerTestRaises(w)
               \/ \E o \in {"success", "failed", "none"} : WorkerTestReturns(w, o))
  /\ WF_vars(DistributeFeed \/ DistributeSignal)
  /\ WF_vars(CollectGet \/ CollectTimerFires \/ CollectTimeout)

\* ===================================== NodeTester ports (node_tester.py)

\* a dict with key k set to v
DictSet(d, k, v) == [q \in DOMAIN d \cup {k} |-> IF q = k THEN v ELSE d[q]]

\* a dict without the keys in ks
DictDrop(d, ks) == [q \in DOMAIN d \ ks |-> d[q]]

SetMin(S) == CHOOSE x \in S : \A y \in S : x <= y

\* _allocate_port, lines 48-51: the released ports still cooling at time t
StillCooling(rel, t) ==
  DictDrop(rel, {p \in DOMAIN rel : t - rel[p] > PortRecycleDelay})

\* _allocate_port, lines 54-69: the port found, 0 when the search raises
FindPort(idx, used, rel) ==
  LET near == {BasePort + idx + attempt : attempt \in 0..(MaxAttempts - 1)}
                 \ (used \cup DOMAIN rel)
  IN IF near # {} THEN SetMin(near)
     ELSE LET any == (BasePort..(BasePort + FallbackRange - 1)) \ (used \cup DOMAIN rel)
          IN IF any # {} THEN SetMin(any) ELSE 0

\* ===================== test_single_node and singboxRunner (one attempt)

Latencies == 1..MaxLatency
Speeds == 1..MaxSpeed
HttpStatuses == {200, 404, 500}

\* what each Stage A method meets: the latency the direct probe and the SOCKS5
\* CONNECT would measure (Null: unreachable) and the answer of the latency URL
NetAnswers ==
  [direct : {Null} \cup {Some(l) : l \in Latencies},
   socks5 : {Null} \cup {Some(l) : l \in Latencies},
   http   : {Null} \cup {Some([status |-> st, elapsed |-> l]) :
                            st \in HttpStatuses, l \in Latencies}]

NoException == [kind |-> "none", msg |-> ""]
Exception(m) == [kind |-> "Exception", msg |-> m]
CancelledError == [kind |-> "CancelledError", msg |-> ""]

\* test_single_node, lines 87-97
InitialResult ==
  [status |-> "failed", error |-> Null, http_latency |-> Null,
   download_speed |-> Null, ip_purity |-> Null]

TestInit ==
  /\ tpc = "idle"
  /\ index \in 0..MaxIndex
  /\ net \in NetAnswers
  /\ socks_port = Null
  /\ result = InitialResult
  /\ exc = NoException
  /\ aexit_raised = FALSE
  /\ direct_latency = Null
  /\ socks5_latency = Null
  /\ process = "none"
  /\ config_file = "none"
  /\ cancels = 0

\* NodeTester.__init__, lines 19-21
NodeTesterInit ==
  /\ nt_active_processes = {}
  /\ nt_used_ports = {}
  /\ nt_released_ports = << >>

\* ProcessManager.__init__, PortManager.__init__, ResourceManager.__init__
ResourceInit ==
  /\ active_processes = {}
  /\ allocated_ports = << >>
  /\ released_ports = << >>
  /\ cleanup_pc = "idle"

\* _test_connectivity, lines 217-270: the function collects the latencies of
\* the answers with status 200, 204, 301 or 302 and then ends without a return
\* statement (the averaging code sits after _test_stability's return, lines
\* 358-364), so the caller always receives None.
test_connectivity(answer) ==
  LET latencies == IF answer # Null /\ answer[1].status \in {200, 204, 301, 302}
                     THEN << answer[1].elapsed >> ELSE << >>
  IN Null

\* what a probe sent through the local SOCKS5 listener meets: the answer of
\* the far end while the engine runs, nothing once it has exited
through_engine(answer) == IF process = "running" THEN answer ELSE Null

\* test_single_node, lines 134-145: the latency kept from the three probes
best_latency(direct, socks5, http) ==
  IF direct # Null THEN direct
  ELSE IF socks5 # Null THEN socks5
  ELSE http

\* test_single_node, lines 87-103: build the result and allocate the port.
\* When _allocate_port raises, the except clause records str(e) and the
\* function returns (socks_port is still None in the finally clause).
TestStart ==
  /\ tpc = "idle"
  /\ LET cooling == StillCooling(nt_released_ports, now)
         port == FindPort(index, nt_used_ports, cooling)
     IN /\ nt_released_ports' = cooling
        /\ IF port # 0
             THEN /\ nt_used_ports' = nt_used_ports \cup {port}
                  /\ socks_port' = Some(port)
                  /\ result' = InitialResult
                  /\ tpc' = "enter"
             ELSE /\ result' = [InitialResult EXCEPT
                                  !.error = Some("No available ports for testing")]
                  /\ tpc' = "returned"
                  /\ UNCHANGED << nt_used_ports, socks_port >>
  /\ UNCHANGED << index, net, exc, aexit_raised, direct_latency, socks5_latency,
                  process, config_file, cancels, nt_active_processes >>
  /\ UNCHANGED << poolVars, resourceVars, envVars >>

\* singboxRunner.__init__ and __aenter__, lines 14-120.
\*   bad_config   : _generate_singbox_config raises, nothing was written
\*   no_binary    : the temp file is written, no candidate path exists (81-83)
\*   spawn_failed : the temp file is written, create_subprocess_exec raises
\*   spawned      : the engine runs and __aenter__ sleeps 3 s (line 120)
\* An exception leaves __aenter__, so __aexit__ is not called for it.
RunnerEnter(outcome) ==
  /\ tpc = "enter"
  /\ config_file' = IF outcome = "bad_config" THEN config_file ELSE "exists"
  /\ IF outcome = "spawned"
       THEN /\ process' = "running"
            /\ tpc' = "starting"
            /\ UNCHANGED exc
       ELSE /\ exc' = Exception(outcome)
            /\ tpc' = "release_inner"
            /\ UNCHANGED process
  /\ UNCHANGED << index, net, socks_port, result, aexit_raised, direct_latency,
                  socks5_latency, cancels >>
  /\ UNCHANGED << poolVars, nodeTesterVars, resourceVars, envVars >>

\* the engine ends by itself (rejected configuration, crash)
EngineExits ==
  /\ process = "running"
  /\ process' = "exited"
  /\ UNCHANGED << tpc, index, net, socks_port, result, exc, aexit_raised,
                  direct_latency, socks5_latency, config_file, cancels >>
  /\ UNCHANGED << poolVars, nodeTesterVars, resourceVars, envVars >>

\* __aenter__, lines 120-157: after the 3 s sleep; an engine that has exited
\* makes __aenter__ raise, otherwise the body of the async-with starts
\* (sleep 2 s, then the direct probe)
RunnerStarted ==
  /\ tpc = "starting"
  /\ IF process = "exited"
       THEN exc' = Exception("engine start failed") /\ tpc' = "release_inner"
       ELSE tpc' = "direct" /\ UNCHANGED exc
  /\ UNCHANGED << index, net, socks_port, result, aexit_raised, direct_latency,
                  socks5_latency, process, config_file, cancels >>
  /\ UNCHANGED << poolVars, nodeTesterVars, resourceVars, envVars >>

\* (mutant) the early return of line 153 is missing
StageADone_NoReturn(direct, socks5, http) ==
  LET best == best_latency(direct, socks5, http)
  IN /\ result' = [result EXCEPT
                     !.http_latency = best,
                     !.error = IF best = Null
                                 THEN Some("All connectivity tests failed") ELSE @]
     /\ tpc' = "ip_check"

\* test_single_node, lines 147-153, after the last Stage A probe: keep the
\* latency; without one the Result is failed and the function returns
StageADone(direct, socks5, http) ==
  LET best == best_latency(direct, socks5, http)
  IN /\ result' = [result EXCEPT
                     !.http_latency = best,
                     !.error = IF best = Null
                                 THEN Some("All connectivity tests failed") ELSE @]
     /\ tpc' = IF best = Null THEN "aexit" ELSE "ip_check"

\* lines 115-119: the direct probe returned
DirectProbe ==
  /\ tpc = "direct"
  /\ direct_latency' = net.direct
  /\ tpc' = IF net.direct # Null THEN "socks5" ELSE "http"
  /\ UNCHANGED << index, net, socks_port, result, exc, aexit_raised,
                  socks5_latency, process, config_file, cancels >>
  /\ UNCHANGED << poolVars, nodeTesterVars, resourceVars, envVars >>

\* lines 119-125: the SOCKS5 probe, run only after a successful direct probe
\* (the HTTP probe of line 129 is then skipped)
Socks5Probe ==
  /\ tpc = "socks5"
  /\ socks5_latency' = through_engine(net.socks5)
  /\ StageADone(direct_latency, through_engine(net.socks5), Null)
  /\ UNCHANGED << index, net, socks_port, exc, aexit_raised, direct_latency,
                  process, config_file, cancels >>
  /\ UNCHANGED << poolVars, nodeTesterVars, resourceVars, envVars >>

\* lines 128-131: the HTTP probe, run only when the direct probe failed
HttpProbe ==
  /\ tpc = "http"
  /\ StageADone(direct_latency, socks5_latency,
                test_connectivity(through_engine(net.http)))
  /\ UNCHANGED << index, net, socks_port, exc, aexit_raised, direct_latency,
                  socks5_latency, process, config_file, cancels >>
  /\ UNCHANGED << poolVars, nodeTesterVars, resourceVars, envVars >>

\* a probe or the speed test raises an Exception inside the async-with body
ProbeRaises ==
  /\ tpc \in {"direct", "http", "speed"}
  /\ exc' = Exception("probe exception")
  /\ tpc' = "aexit"
  /\ UNCHANGED << index, net, socks_port, result, aexit_raised, direct_latency,
                  socks5_latency, process, config_file, cancels >>
  /\ UNCHANGED << poolVars, nodeTesterVars, resourceVars, envVars >>

\* (mutant) a Stage B that found no IP category ends the test
IpCheck_FailureAborts(purity) ==
  /\ tpc = "ip_check"
  /\ result' = [result EXCEPT !.ip_purity = purity]
  /\ tpc' = IF purity = Null THEN "aexit" ELSE "speed"
  /\ UNCHANGED << index, net, socks_port, exc, aexit_raised, direct_latency,
                  socks5_latency, process, config_file, cancels >>
  /\ UNCHANGED << poolVars, nodeTesterVars, resourceVars, envVars >>

\* lines 159-167: Stage B, check_ip_purity never raises (ip_checker.py:60-62)
IpCheck(purity) ==
  /\ tpc = "ip_check"
  /\ result' = [result EXCEPT !.ip_purity = purity]
  /\ tpc' = "speed"
  /\ UNCHANGED << index, net, socks_port, exc, aexit_raised, direct_latency,
                  socks5_latency, process, config_file, cancels >>
  /\ UNCHANGED << poolVars, nodeTesterVars, resourceVars, envVars >>

\* lines 170-194: Stage C returned download_speed (Null when the gate or the
\* measurement failed); the status becomes success either way
SpeedTest(download_speed) ==
  /\ tpc = "speed"
  /\ result' = [result EXCEPT
                  !.download_speed = download_speed,
                  !.status = "success",
                  !.error = IF download_speed = Null
                              THEN Some("Speed test failed but connectivity OK")
                              ELSE @]
  /\ tpc' = "aexit"
  /\ UNCHANGED << index, net, socks_port, exc, aexit_raised, direct_latency,
                  socks5_latency, process, config_file, cancels >>
  /\ UNCHANGED << poolVars, nodeTesterVars, resourceVars, envVars >>

\* __aexit__, lines 161-170 and 207-212: a running engine is sent terminate()
\* and awaited for up to 3 s; an engine that already exited leaves only the
\* temp file to delete
RunnerExit ==
  /\ tpc = "aexit"
  /\ IF process = "running"
       THEN /\ tpc' = "term_wait"
            /\ teardown' = Append(teardown, "terminate")
            /\ UNCHANGED config_file
       ELSE /\ tpc' = "release_inner"
            /\ config_file' = "deleted"
            /\ teardown' = Append(teardown, "config_deleted")
  /\ UNCHANGED << index, net, socks_port, result, exc, aexit_raised,
                  direct_latency, socks5_latency, process, cancels >>
  /\ UNCHANGED << poolVars, nodeTesterVars, resourceVars, envRest, poolHist, pm_ret, extRest >>

\* (mutant) the engine is killed although it exited within the 3 s
TerminateWaited_KillsAnyway ==
  /\ tpc = "term_wait"
  /\ process' = "terminated"
  /\ tpc' = "aexit_sleep"
  /\ teardown' = teardown \o << "exited", "kill", "pipes_closed" >>
  /\ UNCHANGED << index, net, socks_port, result, exc, aexit_raised,
                  direct_latency, socks5_latency, config_file, cancels >>
  /\ UNCHANGED << poolVars, nodeTesterVars, resourceVars, envRest, poolHist, pm_ret, extRest >>

\* __aexit__, lines 170-171 and 180-205: the engine exited within the 3 s.
\* The pipes are closed by the subprocess transport when it handles the exit;
\* stdout.close() of line 184 raises AttributeError (a StreamReader has no
\* close), which line 187 swallows.  The finally clause then sleeps.
TerminateWaited ==
  /\ tpc = "term_wait"
  /\ process' = "terminated"
  /\ tpc' = "aexit_sleep"
  /\ teardown' = teardown \o << "exited", "pipes_closed" >>
  /\ UNCHANGED << index, net, socks_port, result, exc, aexit_raised,
                  direct_latency, socks5_latency, config_file, cancels >>
  /\ UNCHANGED << poolVars, nodeTesterVars, resourceVars, envRest, poolHist, pm_ret, extRest >>

\* __aexit__, lines 172-175: the wait timed out, kill() and wait again
TerminateTimeout ==
  /\ tpc = "term_wait"
  /\ process = "running"
  /\ process' = "terminated"
  /\ tpc' = "kill_wait"
  /\ teardown' = teardown \o << "timeout", "kill" >>
  /\ UNCHANGED << index, net, socks_port, result, exc, aexit_raised,
                  direct_latency, socks5_latency, config_file, cancels >>
  /\ UNCHANGED << poolVars, nodeTesterVars, resourceVars, envRest, poolHist, pm_ret, extRest >>

\* __aexit__, lines 175-176 and 180-205: the killed engine was reaped
KillWaited ==
  /\ tpc = "kill_wait"
  /\ tpc' = "aexit_sleep"
  /\ teardown' = Append(teardown, "pipes_closed")
  /\ UNCHANGED << index, net, socks_port, result, exc, aexit_raised,
                  direct_latency, socks5_latency, process, config_file, cancels >>
  /\ UNCHANGED << poolVars, nodeTesterVars, resourceVars, envRest, poolHist, pm_ret, extRest >>

\* __aexit__, lines 205-212: the sleep of the finally clause ended.  When the
\* try block was left by an exception that "except Exception" does not catch,
\* it propagates now and the unlink of line 210 is not reached.
RunnerExitSlept ==
  /\ tpc = "aexit_sleep"
  /\ config_file' = IF aexit_raised THEN config_file ELSE "deleted"
  /\ tpc' = "release_inner"
  /\ teardown' = IF aexit_raised THEN teardown
                  ELSE Append(teardown, "config_deleted")
  /\ UNCHANGED << index, net, socks_port, result, exc, aexit_raised,
                  direct_latency, socks5_latency, process, cancels >>
  /\ UNCHANGED << poolVars, nodeTesterVars, resourceVars, envRest, poolHist, pm_ret, extRest >>

\* (mutant) the released port stays in the leased set
release_port_KeepsLease(used, rel, port, t) ==
  [used |-> used, released |-> DictSet(rel, port, t)]

\* _release_port, lines 73-75
release_port(used, rel, port, t) ==
  [used |-> used \ {port}, released |-> DictSet(rel, port, t)]

\* test_single_node, lines 197-200: the inner finally releases the port and
\* _release_port sleeps (lines 78-81)
ReleaseInner ==
  /\ tpc = "release_inner"
  /\ LET r == release_port(nt_used_ports, nt_released_ports, socks_port[1], now)
     IN /\ nt_used_ports' = r.used
        /\ nt_released_ports' = r.released
  /\ tpc' = "release_inner_sleep"
  /\ UNCHANGED << index, net, socks_port, result, exc, aexit_raised,
                  direct_latency, socks5_latency, process, config_file, cancels,
                  nt_active_processes >>
  /\ UNCHANGED << poolVars, resourceVars, envVars >>

\* (mutant) the except clause does not store the exception text
except_clause_DropsError(res, e) == res

\* test_single_node, lines 202-203: "except Exception as e" stores str(e)
except_clause(res, e) ==
  IF e.kind = "Exception" THEN [res EXCEPT !.error = Some(e.msg)] ELSE res

\* test_single_node, lines 202-210: an Exception is caught and its text stored
\* in result['error']; the outer finally releases the port a second time
ReleaseOuter ==
  /\ tpc = "release_inner_sleep"
  /\ result' = except_clause(result, exc)
  /\ exc' = IF exc.kind = "Exception" THEN NoException ELSE exc
  /\ LET r == release_port(nt_used_ports, nt_released_ports, socks_port[1], now)
     IN /\ nt_used_ports' = r.used
        /\ nt_released_ports' = r.released
  /\ tpc' = "release_outer_sleep"
  /\ UNCHANGED << index, net, socks_port, aexit_raised, direct_latency,
                  socks5_latency, process, config_file, cancels,
                  nt_active_processes >>
  /\ UNCHANGED << poolVars, resourceVars, envVars >>

\* test_single_node, lines 210-215: return result, unless a CancelledError is
\* propagating, which leaves the coroutine without a Result
TestReturn ==
  /\ tpc = "release_outer_sleep"
  /\ tpc' = IF exc.kind = "CancelledError" THEN "cancelled" ELSE "returned"
  /\ UNCHANGED << index, net, socks_port, result, exc, aexit_raised,
                  direct_latency, socks5_latency, process, config_file, cancels >>
  /\ UNCHANGED << poolVars, nodeTesterVars, resourceVars, envVars >>

\* where a CancelledError delivered at the current suspension point takes the
\* coroutine.  CancelledError is not an Exception, so no "except Exception"
\* clause stops it.
\*   starting            : raised inside __aenter__, __aexit__ is not called
\*   direct .. speed     : raised in the async-with body, __aexit__ runs
\*   term_wait, kill_wait: raised inside __aexit__'s try; its finally runs
\*   aexit_sleep         : raised inside __aexit__'s finally; line 208 skipped
\*   release_inner_sleep : raised in the inner finally; the outer finally runs
\*   release_outer_sleep : raised in the outer finally
AfterCancel(pc) ==
  CASE pc = "starting" -> "release_inner"
    [] pc \in {"direct", "socks5", "http", "ip_check", "speed"} -> "aexit"
    [] pc \in {"term_wait", "kill_wait"} -> "aexit_sleep"
    [] pc = "aexit_sleep" -> "release_inner"
    [] pc = "release_inner_sleep" -> "release_outer_sleep_release"
    [] pc = "release_outer_sleep" -> "cancelled"

SuspensionPoints ==
  {"starting", "direct", "socks5", "http", "ip_check", "speed", "term_wait",
   "kill_wait", "aexit_sleep", "release_inner_sleep", "release_outer_sleep"}

\* the task running test_single_node is cancelled at a suspension point
Cancel ==
  /\ tpc \in SuspensionPoints
  /\ cancels < MaxCancels
  /\ cancels' = cancels + 1
  /\ exc' = CancelledError
  /\ aexit_raised' = (aexit_raised \/ tpc \in {"term_wait", "kill_wait", "aexit_sleep"})
  /\ IF AfterCancel(tpc) = "release_outer_sleep_release"
       THEN /\ LET r == release_port(nt_used_ports, nt_released_ports, socks_port[1], now)
               IN /\ nt_used_ports' = r.used
                  /\ nt_released_ports' = r.released
            /\ tpc' = "release_outer_sleep"
       ELSE /\ tpc' = AfterCancel(tpc)
            /\ UNCHANGED << nt_used_ports, nt_released_ports >>
  /\ UNCHANGED << index, net, socks_port, result, direct_latency, socks5_latency,
                  process, config_file, nt_active_processes >>
  /\ UNCHANGED << poolVars, resourceVars, envVars >>

\* NodeTester.cleanup, lines 29-40: nothing ever appends to _active_processes,
\* so the loop has no process to terminate; the port books are cleared
NodeTesterCleanup ==
  /\ nt_used_ports # {} \/ nt_released_ports # << >>
  /\ nt_active_processes' = {}
  /\ nt_used_ports' = {}
  /\ nt_released_ports' = << >>
  /\ UNCHANGED << poolVars, testVars, resourceVars, envVars >>

\* the SIGINT/SIGTERM handler of register_cleanup_handlers, lines 237-239
Signal ==
  /\ cleanup_pc = "idle"
  /\ cleanup_pc' = "scheduled"
  /\ UNCHANGED << active_processes, allocated_ports, released_ports >>
  /\ UNCHANGED << poolVars, testVars, nodeTesterVars, envVars >>

\* ResourceManager.cleanup_all, lines 248-259: terminate every process of the
\* registry (ProcessManager.cleanup_all) and clear both port maps
\* (PortManager.cleanup_all).  singboxRunner spawns its engine with
\* asyncio.create_subprocess_exec (singbox_runner.py:109), not with
\* ProcessManager.create_process, so the engine is in the registry only if
\* "engine" is in active_processes.
ResourceCleanupAll ==
  /\ cleanup_pc = "scheduled"
  /\ process' = IF "engine" \in active_processes /\ process = "running"
                  THEN "terminated" ELSE process
  /\ active_processes' = {}
  /\ allocated_ports' = << >>
  /\ released_ports' = << >>
  /\ cleanup_pc' = "done"
  /\ UNCHANGED << tpc, index, net, socks_port, result, exc, aexit_raised,
                  direct_latency, socks5_latency, config_file, cancels >>
  /\ UNCHANGED << poolVars, nodeTesterVars, envVars >>

EnvInit ==
  /\ now = 0
  /\ os_bound = {}
  /\ release_log = << >>
  /\ hold = [h \in Holders |-> Null]
  /\ hpc = [h \in Holders |-> "idle"]
  /\ any_failed = FALSE
  /\ UtilIdle

TestNext ==
  \/ TestStart
  \/ \E o \in {"bad_config", "no_binary", "spawn_failed", "spawned"} : RunnerEnter(o)
  \/ EngineExits
  \/ RunnerStarted
  \/ DirectProbe
  \/ Socks5Probe
  \/ HttpProbe
  \/ ProbeRaises
  \/ \E purity \in {Null, Some("Hosting")} : IpCheck(purity)
  \/ \E speed \in {Null} \cup {Some(v) : v \in Speeds} : SpeedTest(speed)
  \/ RunnerExit
  \/ TerminateWaited
  \/ TerminateTimeout
  \/ KillWaited
  \/ RunnerExitSlept
  \/ ReleaseInner
  \/ ReleaseOuter
  \/ TestReturn
  \/ Cancel
  \/ NodeTesterCleanup
  \/ Signal
  \/ ResourceCleanupAll

\* the pool, untouched, beside a test attempt
PoolIdle ==
  /\ num_nodes = 0
  /\ worker_count = 1
  /\ success_limit = 0
  /\ task_queue = << >>
  /\ result_queue = << >>
  /\ results = << >>
  /\ progress = 0
  /\ successful_count = 0
  /\ force_stop = FALSE
  /\ workers = {}
  /\ wpc = [w \in WorkerIds |-> "none"]
  /\ wtask = [w \in WorkerIds |-> 0]
  /\ dpc = "none"
  /\ dist_index = 0
  /\ dist_sent = 0
  /\ cpc = "none"
  /\ rpc = "init"
  /\ stats = [total_nodes_tested |-> 0, successful_nodes |-> 0, failed_nodes |-> 0]

\* no test attempt: the state the pool specification keeps the tester in
TestIdle ==
  /\ tpc = "idle"
  /\ index = 0
  /\ net = [direct |-> Null, socks5 |-> Null, http |-> Null]
  /\ socks_port = Null
  /\ result = InitialResult
  /\ exc = NoException
  /\ aexit_raised = FALSE
  /\ direct_latency = Null
  /\ socks5_latency = Null
  /\ process = "none"
  /\ config_file = "none"
  /\ cancels = 0

InitTest == PoolIdle /\ TestInit /\ NodeTesterInit /\ ResourceInit /\ EnvInit

SpecTest == InitTest /\ [][TestNext]_vars

InitPool == PoolInit /\ TestIdle /\ NodeTesterInit /\ ResourceInit /\ EnvInit

SpecPool == InitPool /\ [][PoolNext]_vars

SpecPoolLive == SpecPool /\ PoolFairness

\* =============================== PortManager (resource_manager.py:135-219)

\* (mutant) released ports expire two seconds early
pm_prune_EarlyExpiry(rel, t) ==
  DictDrop(rel, {p \in DOMAIN rel : t - rel[p] > RecycleDelay - 2})

\* allocate_port, lines 159-165: released_ports without the expired entries
pm_prune(rel, t) ==
  DictDrop(rel, {p \in DOMAIN rel : t - rel[p] > RecycleDelay})

\* _is_port_in_use, lines 204-212: psutil lists the bound ports; when psutil
\* raises AccessDenied the port is reported free
is_port_in_use(port, denied) == IF denied THEN FALSE ELSE port \in os_bound

\* allocate_port, lines 168-178: scan upward from base_port; 0 when the scan
\* passes base_port + 1000 and raises RuntimeError
pm_eligible(port, alloc, rel, denied) ==
  /\ port \notin DOMAIN alloc
  /\ port \notin DOMAIN rel
  /\ ~is_port_in_use(port, denied)

\* (mutant) a scan that finds nothing hands out base_port
pm_find_port_WrapsAround(alloc, rel, denied) ==
  LET range == PMBasePort..(PMBasePort + ScanLimit)
  IN IF \E p \in range : pm_eligible(p, alloc, rel, denied)
       THEN CHOOSE p \in range :
              /\ pm_eligible(p, alloc, rel, denied)
              /\ \A q \in PMBasePort..(p - 1) : ~pm_eligible(q, alloc, rel, denied)
       ELSE PMBasePort

pm_find_port(alloc, rel, denied) ==
  LET range == PMBasePort..(PMBasePort + ScanLimit)
  IN IF \E p \in range : pm_eligible(p, alloc, rel, denied)
       THEN CHOOSE p \in range :
              /\ pm_eligible(p, alloc, rel, denied)
              /\ \A q \in PMBasePort..(p - 1) : ~pm_eligible(q, alloc, rel, denied)
       ELSE 0

\* PortManager.allocate_port, lines 157-187.  A scan that raises leaves
\* allocated_ports as it was; the pruning of released_ports has happened.
\* pm_ret keeps the port returned (0: RuntimeError) and what psutil did.
PMAllocate(node_name, denied) ==
  /\ LET cooling == pm_prune(released_ports, now)
         port == pm_find_port(allocated_ports, cooling, denied)
     IN /\ port < PMBasePort + MaxPMPorts
        /\ released_ports' = cooling
        /\ allocated_ports' = IF port # 0
                                THEN DictSet(allocated_ports, port,
                                             [node_name |-> node_name,
                                              allocated_at |-> now])
                                ELSE allocated_ports
        /\ pm_ret' = Some([port |-> port, denied |-> denied])
  /\ UNCHANGED << active_processes, cleanup_pc, envRest, poolHist, teardown, extRest >>
  /\ UNCHANGED << poolVars, testVars, nodeTesterVars >>

\* PortManager.release_port, lines 196-202 (a port that is not allocated is
\* left alone)
PMRelease(port) ==
  /\ port \in DOMAIN allocated_ports
  /\ allocated_ports' = DictDrop(allocated_ports, {port})
  /\ released_ports' = DictSet(released_ports, port, now)
  /\ release_log' = DictSet(release_log, port, [at |-> now, cleaned |-> FALSE])
  /\ UNCHANGED << active_processes, cleanup_pc, now, os_bound, hold, hpc, any_failed, utilVars >>
  /\ UNCHANGED << poolVars, testVars, nodeTesterVars >>

\* PortManager.cleanup_all, lines 214-219
PMCleanupAll ==
  /\ DOMAIN allocated_ports # {} \/ DOMAIN released_ports # {}
  /\ allocated_ports' = << >>
  /\ released_ports' = << >>
  /\ release_log' = [p \in DOMAIN release_log |-> [release_log[p] EXCEPT !.cleaned = TRUE]]
  /\ UNCHANGED << active_processes, cleanup_pc, now, os_bound, hold, hpc, any_failed, utilVars >>
  /\ UNCHANGED << poolVars, testVars, nodeTesterVars >>

\* one second passes
Tick ==
  /\ now < MaxTime
  /\ now' = now + 1
  /\ UNCHANGED << os_bound, release_log, hold, hpc, any_failed, utilVars >>
  /\ UNCHANGED << poolVars, testVars, nodeTesterVars, resourceVars >>

\* the loopback ports other processes hold when the port manager starts:
\* none, or the base port
PortEnvInit ==
  /\ now = 0
  /\ os_bound \in {{}, {PMBasePort}}
  /\ release_log = << >>
  /\ hold = [h \in Holders |-> Null]
  /\ hpc = [h \in Holders |-> "idle"]
  /\ any_failed = FALSE
  /\ UtilIdle

PortNext ==
  \/ \E denied \in BOOLEAN : PMAllocate("node", denied)
  \/ \E port \in PMBasePort..(PMBasePort + MaxPMPorts - 1) : PMRelease(port)
  \/ PMCleanupAll
  \/ Tick

InitPort == PoolIdle /\ TestIdle /\ NodeTesterInit /\ ResourceInit /\ PortEnvInit

SpecPort == InitPort /\ [][PortNext]_vars

\* ============ both port allocators at their limits (no port left to give)

\* every port the scan of allocate_port looks at (lines 168-178)
FullScan == PMBasePort..(PMBasePort + ScanLimit)

\* every port the two searches of _allocate_port look at (lines 55-67)
FullBook == BasePort..(BasePort + FallbackRange - 1)

\* a node no probe reaches and a node the direct and the SOCKS5 probe reach
AllocNets ==
  {[direct |-> Null, socks5 |-> Null, http |-> Null],
   [direct |-> Some(1), socks5 |-> Some(1), http |-> Null]}

\* the NodeTester has given out no port yet, or other attempts hold every
\* port of its two searches; no other process has a port of the manager's
\* scan bound, or all of them are bound
AllocInit ==
  /\ PoolIdle
  /\ TestInit
  /\ net \in AllocNets
  /\ nt_active_processes = {}
  /\ nt_used_ports \in {{}, FullBook}
  /\ nt_released_ports = << >>
  /\ ResourceInit
  /\ now = 0
  /\ os_bound \in {{}, FullScan}
  /\ release_log = << >>
  /\ hold = [h \in Holders |-> Null]
  /\ hpc = [h \in Holders |-> "idle"]
  /\ any_failed = FALSE
  /\ UtilIdle

\* nothing in the pipeline calls the port manager (managed_port,
\* resource_manager.py:283-299, has no caller); its client runs here once
\* the test attempt has ended
AttemptOverForClient == tpc \in {"returned", "cancelled"}

\* the steps of one test attempt (TestNext without the clean-up operations)
AttemptNext ==
  \/ TestStart
  \/ \E o \in {"bad_config", "no_binary", "spawn_failed", "spawned"} : RunnerEnter(o)
  \/ EngineExits
  \/ RunnerStarted
  \/ DirectProbe
  \/ Socks5Probe
  \/ HttpProbe
  \/ ProbeRaises
  \/ \E purity \in {Null, Some("Hosting")} : IpCheck(purity)
  \/ \E speed \in {Null} \cup {Some(v) : v \in Speeds} : SpeedTest(speed)
  \/ RunnerExit
  \/ TerminateWaited
  \/ TerminateTimeout
  \/ KillWaited
  \/ RunnerExitSlept
  \/ ReleaseInner
  \/ ReleaseOuter
  \/ TestReturn
  \/ Cancel

AllocNext ==
  \/ AttemptNext
  \/ AttemptOverForClient /\ \E denied \in BOOLEAN : PMAllocate("node", denied)
  \/ AttemptOverForClient
       /\ \E port \in PMBasePort..(PMBasePort + MaxPMPorts - 1) : PMRelease(port)
  \/ AttemptOverForClient /\ PMCleanupAll

SpecAlloc == AllocInit /\ [][AllocNext]_vars

\* ===================== NodeTester port book with concurrent test attempts

\* test_single_node, line 103, for the attempt of holder h on node idx
HolderAllocate(h, idx) ==
  /\ hpc[h] = "idle"
  /\ LET cooling == StillCooling(nt_released_ports, now)
         port == FindPort(idx, nt_used_ports, cooling)
     IN /\ port # 0
        /\ port < BasePort + MaxPorts
        /\ nt_released_ports' = cooling
        /\ nt_used_ports' = nt_used_ports \cup {port}
        /\ hold' = [hold EXCEPT ![h] = Some(port)]
  /\ hpc' = [hpc EXCEPT ![h] = "testing"]
  /\ UNCHANGED << now, os_bound, release_log, nt_active_processes, any_failed, utilVars >>
  /\ UNCHANGED << poolVars, testVars, resourceVars >>

\* test_single_node, lines 197-200: the engine is gone, the inner finally
\* releases the port and sleeps
HolderReleaseInner(h) ==
  /\ hpc[h] = "testing"
  /\ LET r == release_port(nt_used_ports, nt_released_ports, hold[h][1], now)
     IN /\ nt_used_ports' = r.used
        /\ nt_released_ports' = r.released
  /\ hpc' = [hpc EXCEPT ![h] = "released"]
  /\ UNCHANGED << now, os_bound, release_log, hold, nt_active_processes, any_failed, utilVars >>
  /\ UNCHANGED << poolVars, testVars, resourceVars >>

\* test_single_node, lines 206-215: the outer finally releases the same port
\* again, then the attempt returns
HolderReleaseOuter(h) ==
  /\ hpc[h] = "released"
  /\ LET r == release_port(nt_used_ports, nt_released_ports, hold[h][1], now)
     IN /\ nt_used_ports' = r.used
        /\ nt_released_ports' = r.released
  /\ hold' = [hold EXCEPT ![h] = Null]
  /\ hpc' = [hpc EXCEPT ![h] = "idle"]
  /\ UNCHANGED << now, os_bound, release_log, nt_active_processes, any_failed, utilVars >>
  /\ UNCHANGED << poolVars, testVars, resourceVars >>

\* NodeTester.cleanup, lines 29-40, called while attempts may be in flight
HolderCleanup ==
  /\ nt_used_ports # {} \/ nt_released_ports # << >>
  /\ nt_active_processes' = {}
  /\ nt_used_ports' = {}
  /\ nt_released_ports' = << >>
  /\ UNCHANGED << now, os_bound, release_log, hold, hpc, any_failed, utilVars >>
  /\ UNCHANGED << poolVars, testVars, resourceVars >>

NodePortsEnvInit ==
  /\ now = 0
  /\ os_bound \in {{}, {BasePort}}
  /\ release_log = << >>
  /\ hold = [h \in Holders |-> Null]
  /\ hpc = [h \in Holders |-> "idle"]
  /\ any_failed = FALSE
  /\ UtilIdle

NodePortsNext ==
  \/ \E h \in Holders, idx \in 0..MaxIndex : HolderAllocate(h, idx)
  \/ \E h \in Holders : HolderReleaseInner(h)
  \/ \E h \in Holders : HolderReleaseOuter(h)
  \/ HolderCleanup
  \/ Tick

InitNodePorts ==
  PoolIdle /\ TestIdle /\ NodeTesterInit /\ ResourceInit /\ NodePortsEnvInit

SpecNodePorts == InitNodePorts /\ [][NodePortsNext]_vars

\* ============ both port books side by side on one clock: the NodeTester
\* book driven by the attempts of one holder (SpecNodePorts has the
\* concurrent attempts) and the PortManager book driven by its client

\* the loopback ports other processes hold at the start: none, or the base port
BooksEnvInit ==
  /\ now = 0
  /\ os_bound \in {{}, {PMBasePort}}
  /\ release_log = << >>
  /\ hold = [h \in Holders |-> Null]
  /\ hpc = [h \in Holders |-> "idle"]
  /\ any_failed = FALSE
  /\ UtilIdle

BooksNext ==
  \/ \E idx \in 0..MaxIndex : HolderAllocate(1, idx)
  \/ HolderReleaseInner(1)
  \/ HolderReleaseOuter(1)
  \/ HolderCleanup
  \/ \E denied \in BOOLEAN : PMAllocate("node", denied)
  \/ \E port \in PMBasePort..(PMBasePort + MaxPMPorts - 1) : PMRelease(port)
  \/ PMCleanupAll
  \/ Tick

InitBooks ==
  PoolIdle /\ TestIdle /\ NodeTesterInit /\ ResourceInit /\ BooksEnvInit

SpecBooks == InitBooks /\ [][BooksNext]_vars

\* ================== TokenBucket and RateLimitedReader (rate_limiter.py)
\* One unit is one chunk of 8192 bytes, the size of a recv of the speed test.

\* create_rate_limiter, lines 218-222
capacity == rate * BurstFactor

\* TokenBucket.wait, lines 70-85, called at time t for n chunks: the refilled
\* bucket, and the time to sleep (0 when the tokens were there and have been
\* deducted; otherwise nothing is deducted)
wait(n, t) ==
  LET refilled == Min(capacity, tokens + (t - last_update) * rate)
  IN IF refilled >= n
       THEN [tokens |-> refilled - n, wait_time |-> 0]
       ELSE [tokens |-> refilled,
             wait_time |-> ((n - refilled) + rate - 1) \div rate]

\* RateLimitedReader.read, lines 115-123: the data is read first, then the
\* bucket is asked and the thread sleeps for the time it answers
LimitedRead(r, n) ==
  /\ rate > 0
  /\ now >= reader_wake[r]
  /\ window_bytes' = window_bytes + n
  /\ LET w == wait(n, now)
     IN /\ tokens' = w.tokens
        /\ reader_wake' = [reader_wake EXCEPT ![r] = now + w.wait_time]
  /\ last_update' = now
  /\ UNCHANGED << rate, now, os_bound, release_log, hold, hpc, any_failed >>
  /\ UNCHANGED << poolVars, testVars, nodeTesterVars, resourceVars, gsVars, pipeVars, parseVars,
                  rankVars, extVars >>

\* _test_native_protocol_speed, line 953: the download loop of the speed stage
\* receives a chunk straight from the socket; no token bucket is involved
SpeedRecv ==
  /\ rate > 0
  /\ window_bytes < MaxWindow
  /\ window_bytes' = window_bytes + 1
  /\ UNCHANGED << rate, tokens, last_update, reader_wake, now, os_bound,
                  release_log, hold, hpc, any_failed >>
  /\ UNCHANGED << poolVars, testVars, nodeTesterVars, resourceVars, gsVars, pipeVars, parseVars,
                  rankVars, extVars >>

\* one second passes; a new 1-second window starts
BucketTick ==
  /\ now < MaxTime
  /\ now' = now + 1
  /\ window_bytes' = 0
  /\ UNCHANGED << rate, tokens, last_update, reader_wake, os_bound, release_log,
                  hold, hpc, any_failed >>
  /\ UNCHANGED << poolVars, testVars, nodeTesterVars, resourceVars, gsVars, pipeVars, parseVars,
                  rankVars, extVars >>

\* create_rate_limiter(R) with R > 0, and TokenBucket.__init__, lines 28-31
BucketInit ==
  /\ rate \in 1..MaxRate
  /\ tokens = capacity
  /\ last_update = 0
  /\ reader_wake = [r \in Readers |-> 0]
  /\ window_bytes = 0
  /\ now = 0
  /\ os_bound = {}
  /\ release_log = << >>
  /\ hold = [h \in Holders |-> Null]
  /\ hpc = [h \in Holders |-> "idle"]
  /\ any_failed = FALSE
  /\ GsIdle
  /\ PipeIdle
  /\ ParseIdle
  /\ RankIdle
  /\ ExtIdle

BucketNext ==
  \/ \E r \in Readers, n \in 1..MaxRead : LimitedRead(r, n)
  \/ SpeedRecv
  \/ BucketTick

InitBucket == PoolIdle /\ TestIdle /\ NodeTesterInit /\ ResourceInit /\ BucketInit

SpecBucket == InitBucket /\ [][BucketNext]_vars

\* ============================================================ GlobalStats
\* rate_limiter.py:130-197. Threads call add_bytes and add_node_tested of the
\* one global_stats object. A += of Python is a load, an add and a store, and
\* a thread switch may fall between them; the lock is what keeps the calls
\* apart. The three node counters are the stats record of the pool.

poolRest == << num_nodes, worker_count, success_limit, task_queue, result_queue,
               results, progress, successful_count, force_stop, workers, wpc,
               wtask, dpc, dist_index, dist_sent, cpc, rpc >>

gsFrame == << poolRest, testVars, nodeTesterVars, resourceVars, now, os_bound,
              release_log, hold, hpc, any_failed, bucketVars, pipeVars,
              parseVars, rankVars, extVars >>

\* threading.Lock.acquire without the wait: the lock is taken whoever holds it
lock_acquire_NoWait(t) ==
  /\ gs_lock' = t

\* `with self.lock:` on entry, lines 158 and 163: blocks until the lock is free
lock_acquire(t) ==
  /\ gs_lock = 0
  /\ gs_lock' = t

\* a thread calls add_bytes(bytes_count), line 156
CallAddBytes(t, n) ==
  /\ calls < MaxCalls
  /\ thr_pc[t] = "idle"
  /\ thr_pc' = [thr_pc EXCEPT ![t] = "add_bytes"]
  /\ thr_arg' = [thr_arg EXCEPT ![t] = n]
  /\ calls' = calls + 1
  /\ UNCHANGED << gs_lock, total_bytes, thr_tmp, done_bytes, done_success,
                  done_failed, contended, stats, gsFrame >>

\* a thread calls add_node_tested(success), line 161; success is 1 or 0
CallAddNodeTested(t, success) ==
  /\ calls < MaxCalls
  /\ thr_pc[t] = "idle"
  /\ thr_pc' = [thr_pc EXCEPT ![t] = "add_node_tested"]
  /\ thr_arg' = [thr_arg EXCEPT ![t] = success]
  /\ calls' = calls + 1
  /\ UNCHANGED << gs_lock, total_bytes, thr_tmp, done_bytes, done_success,
                  done_failed, contended, stats, gsFrame >>

\* lines 158 and 163: the thread enters the with block
GsLock(t) ==
  /\ thr_pc[t] \in {"add_bytes", "add_node_tested"}
  /\ lock_acquire(t)
  /\ thr_pc' = [thr_pc EXCEPT ![t] =
                  IF thr_pc[t] = "add_bytes" THEN "ab_load" ELSE "ant_load_total"]
  /\ contended' = (contended \/ \E u \in Threads \ {t} :
                                   thr_pc[u] \in {"add_bytes", "add_node_tested"})
  /\ UNCHANGED << total_bytes, thr_arg, thr_tmp, calls, done_bytes, done_success,
                  done_failed, stats, gsFrame >>

\* line 159, self.total_bytes += bytes_count: the load
AddBytesLoad(t) ==
  /\ thr_pc[t] = "ab_load"
  /\ thr_tmp' = [thr_tmp EXCEPT ![t] = total_bytes]
  /\ thr_pc' = [thr_pc EXCEPT ![t] = "ab_store"]
  /\ UNCHANGED << gs_lock, total_bytes, thr_arg, calls, done_bytes, done_success,
                  done_failed, contended, stats, gsFrame >>

\* line 159: the store
AddBytesStore(t) ==
  /\ thr_pc[t] = "ab_store"
  /\ total_bytes' = thr_tmp[t] + thr_arg[t]
  /\ thr_pc' = [thr_pc EXCEPT ![t] = "ab_exit"]
  /\ UNCHANGED << gs_lock, thr_arg, thr_tmp, calls, done_bytes, done_success,
                  done_failed, contended, stats, gsFrame >>

\* line 164, self.total_nodes_tested += 1: the load
AddNodeLoadTotal(t) ==
  /\ thr_pc[t] = "ant_load_total"
  /\ thr_tmp' = [thr_tmp EXCEPT ![t] = stats.total_nodes_tested]
  /\ thr_pc' = [thr_pc EXCEPT ![t] = "ant_store_total"]
  /\ UNCHANGED << gs_lock, total_bytes, thr_arg, calls, done_bytes, done_success,
                  done_failed, contended, stats, gsFrame >>

\* line 164: the store
AddNodeStoreTotal(t) ==
  /\ thr_pc[t] = "ant_store_total"
  /\ stats' = [stats EXCEPT !.total_nodes_tested = thr_tmp[t] + 1]
  /\ thr_pc' = [thr_pc EXCEPT ![t] = "ant_load_branch"]
  /\ UNCHANGED << gs_lock, total_bytes, thr_arg, thr_tmp, calls, done_bytes,
                  done_success, done_failed, contended, gsFrame >>

\* lines 165-168, the += 1 of the branch success selects: the load
AddNodeLoadBranch(t) ==
  /\ thr_pc[t] = "ant_load_branch"
  /\ thr_tmp' = [thr_tmp EXCEPT ![t] =
                   IF thr_arg[t] = 1 THEN stats.successful_nodes
                                     ELSE stats.failed_nodes]
  /\ thr_pc' = [thr_pc EXCEPT ![t] = "ant_store_branch"]
  /\ UNCHANGED << gs_lock, total_bytes, thr_arg, calls, done_bytes, done_success,
                  done_failed, contended, stats, gsFrame >>

\* lines 165-168: the store
AddNodeStoreBranch(t) ==
  /\ thr_pc[t] = "ant_store_branch"
  /\ stats' = IF thr_arg[t] = 1
                THEN [stats EXCEPT !.successful_nodes = thr_tmp[t] + 1]
                ELSE [stats EXCEPT !.failed_nodes = thr_tmp[t] + 1]
  /\ thr_pc' = [thr_pc EXCEPT ![t] = "ant_exit"]
  /\ UNCHANGED << gs_lock, total_bytes, thr_arg, thr_tmp, calls, done_bytes,
                  done_success, done_failed, contended, gsFrame >>

\* the end of the with block: the lock is released and the call returns
GsUnlock(t) ==
  /\ thr_pc[t] \in {"ab_exit", "ant_exit"}
  /\ gs_lock' = 0
  /\ thr_pc' = [thr_pc EXCEPT ![t] = "idle"]
  /\ done_bytes' = IF thr_pc[t] = "ab_exit" THEN done_bytes + thr_arg[t]
                                             ELSE done_bytes
  /\ done_success' = IF thr_pc[t] = "ant_exit" /\ thr_arg[t] = 1
                       THEN done_success + 1 ELSE done_success
  /\ done_failed' = IF thr_pc[t] = "ant_exit" /\ thr_arg[t] = 0
                      THEN done_failed + 1 ELSE done_failed
  /\ UNCHANGED << total_bytes, thr_arg, thr_tmp, calls, contended, stats, gsFrame >>

StatsNext ==
  \/ \E t \in Threads, n \in 1..MaxBytes : CallAddBytes(t, n)
  \/ \E t \in Threads, success \in {0, 1} : CallAddNodeTested(t, success)
  \/ \E t \in Threads : GsLock(t)
  \/ \E t \in Threads : AddBytesLoad(t)
  \/ \E t \in Threads : AddBytesStore(t)
  \/ \E t \in Threads : AddNodeLoadTotal(t)
  \/ \E t \in Threads : AddNodeStoreTotal(t)
  \/ \E t \in Threads : AddNodeLoadBranch(t)
  \/ \E t \in Threads : AddNodeStoreBranch(t)
  \/ \E t \in Threads : GsUnlock(t)

StatsEnvInit ==
  /\ now = 0
  /\ os_bound = {}
  /\ release_log = << >>
  /\ hold = [h \in Holders |-> Null]
  /\ hpc = [h \in Holders |-> "idle"]
  /\ any_failed = FALSE
  /\ BucketIdle
  /\ GsIdle
  /\ PipeIdle
  /\ ParseIdle
  /\ RankIdle
  /\ ExtIdle

InitStats == PoolIdle /\ TestIdle /\ NodeTesterInit /\ ResourceInit /\ StatsEnvInit

SpecStats == InitStats /\ [][StatsNext]_vars


\* ============================================================ main pipeline
\* main.py:946-1004 (main and the __main__ block) and 442-693
\* (GoSubsChecker.run_speed_test). A node is the line of text a subscription
\* serves; what the model keeps of a line is its scheme, the server and port
\* it names, and the rest of its text (name, parameters).

max_test_nodes == 100

\* the schemes of the lines the sources serve
Schemes == {"vmess", "ssr"}

Lines == [type : Schemes, server : 1..MaxServers, port : {443},
          rest : 1..MaxRests]

\* main.py:381 and 431: the prefixes parse_nodes_from_content keeps
KeptPrefixes == {"ss", "vmess", "vless", "trojan", "hysteria", "tuic"}

\* the (server, port, type) of a node line
Triple(line) == << line.server, line.port, line.type >>

Range(q) == { q[i] : i \in 1..Len(q) }

Take(q, n) == IF Len(q) > n THEN SubSeq(q, 1, n) ELSE q

\* parse_nodes_from_content, lines 426-440: the lines with a kept prefix
extract_nodes(text) == SelectSeq(text, LAMBDA line : line.type \in KeptPrefixes)

\* the orders list(set(...)) can produce for a set of strings: the iteration
\* order of a set of str depends on the hash seed of the process
ListOfSet(S) ==
  { q \in [1..Cardinality(S) -> S] :
      \A i, j \in 1..Cardinality(S) : i # j => q[i] # q[j] }

pipeRest == << poolVars, testVars, nodeTesterVars, resourceVars, now, os_bound,
               release_log, hold, hpc, any_failed, bucketVars, gsVars,
               parseVars, rankVars, extVars >>

\* main, lines 964-969: compile_go_if_needed; on failure main returns 1
MainCompile(ok) ==
  /\ main_pc = "start"
  /\ go_executable' = ok
  /\ IF ok
       THEN /\ main_pc' = "compiled"
            /\ UNCHANGED << exit_code, pipeline_error >>
       ELSE /\ main_pc' = "exited"
            /\ exit_code' = Some(1)
            /\ pipeline_error' = TRUE
  /\ UNCHANGED << subscription_urls, fetched, all_nodes, unique_nodes,
                  run_result, interrupted, pipeRest >>

\* main, lines 971-973: --compile-only
MainCompileOnly ==
  /\ main_pc = "compiled"
  /\ main_pc' = "exited"
  /\ exit_code' = Some(0)
  /\ UNCHANGED << go_executable, subscription_urls, fetched, all_nodes,
                  unique_nodes, run_result, interrupted, pipeline_error,
                  pipeRest >>

\* run_speed_test, lines 444-467: the executable check and parse_subscriptions
ParseSubscriptions ==
  /\ main_pc = "compiled"
  /\ IF ~go_executable
       THEN /\ run_result' = Some([success |-> FALSE,
                                   error |-> "Go executable not found"])
            /\ main_pc' = "display"
       ELSE IF subscription_urls = 0
         THEN /\ run_result' = Some([success |-> FALSE,
                                     error |-> "No valid subscription URLs found"])
              /\ main_pc' = "display"
         ELSE /\ run_result' = run_result
              /\ main_pc' = "collect"
  /\ UNCHANGED << go_executable, subscription_urls, fetched, all_nodes,
                  unique_nodes, exit_code, interrupted, pipeline_error,
                  pipeRest >>

\* run_speed_test, lines 469-472: collect_nodes_concurrently (lines 213-267)
CollectNodes ==
  /\ main_pc = "collect"
  /\ all_nodes' = Take(extract_nodes(fetched), max_test_nodes)
  /\ main_pc' = "dedup"
  /\ UNCHANGED << go_executable, subscription_urls, fetched, unique_nodes,
                  run_result, exit_code, interrupted, pipeline_error, pipeRest >>

\* run_speed_test, lines 474-482: unique_nodes = list(set(all_nodes)), the
\* empty check and the cap
Dedup ==
  /\ main_pc = "dedup"
  /\ \E q \in ListOfSet(Range(all_nodes)) :
       IF Len(q) = 0
         THEN /\ unique_nodes' = q
              /\ run_result' = Some([success |-> FALSE,
                                     error |-> "No valid nodes found"])
              /\ main_pc' = "display"
         ELSE /\ unique_nodes' = Take(q, max_test_nodes)
              /\ run_result' = run_result
              /\ main_pc' = "go"
  /\ UNCHANGED << go_executable, subscription_urls, fetched, all_nodes,
                  exit_code, interrupted, pipeline_error, pipeRest >>

\* run_speed_test, lines 484-672: the Go stage ran and its output was parsed
GoStage ==
  /\ main_pc = "go"
  /\ run_result' = Some([success |-> TRUE, error |-> ""])
  /\ main_pc' = "display"
  /\ UNCHANGED << go_executable, subscription_urls, fetched, all_nodes,
                  unique_nodes, exit_code, interrupted, pipeline_error,
                  pipeRest >>

\* an Exception in the Go stage (the HTTP server cannot bind, the binary
\* cannot be started): run_speed_test has no except clause, lines 456 and 674,
\* so it reaches the __main__ block, lines 1002-1004
GoStageRaises ==
  /\ main_pc = "go"
  /\ pipeline_error' = TRUE
  /\ exit_code' = Some(1)
  /\ main_pc' = "exited"
  /\ UNCHANGED << go_executable, subscription_urls, fetched, all_nodes,
                  unique_nodes, run_result, interrupted, pipeRest >>

\* main, lines 988-993, and sys.exit(exit_code), lines 997-998
MainReturn ==
  /\ main_pc = "display"
  /\ exit_code' = Some(IF run_result[1].success THEN 0 ELSE 1)
  /\ main_pc' = "exited"
  /\ UNCHANGED << go_executable, subscription_urls, fetched, all_nodes,
                  unique_nodes, run_result, interrupted, pipeline_error,
                  pipeRest >>

\* KeyboardInterrupt while asyncio.run(main()) runs, lines 999-1001
KeyboardInterrupt ==
  /\ main_pc \notin {"none", "exited"}
  /\ interrupted' = TRUE
  /\ exit_code' = Some(130)
  /\ main_pc' = "exited"
  /\ UNCHANGED << go_executable, subscription_urls, fetched, all_nodes,
                  unique_nodes, run_result, pipeline_error, pipeRest >>

PipeNext ==
  \/ \E ok \in BOOLEAN : MainCompile(ok)
  \/ MainCompileOnly
  \/ ParseSubscriptions
  \/ CollectNodes
  \/ Dedup
  \/ GoStage
  \/ GoStageRaises
  \/ MainReturn
  \/ KeyboardInterrupt

\* the program is started on a subscription file and sources of some content
PipeInit ==
  /\ main_pc = "start"
  /\ go_executable = FALSE
  /\ subscription_urls \in 0..MaxUrls
  /\ fetched \in UNION { [1..n -> Lines] : n \in 0..MaxLines }
  /\ (subscription_urls = 0 => fetched = << >>)
  /\ all_nodes = << >>
  /\ unique_nodes = << >>
  /\ run_result = Null
  /\ exit_code = Null
  /\ interrupted = FALSE
  /\ pipeline_error = FALSE

PipeEnvInit ==
  /\ now = 0
  /\ os_bound = {}
  /\ release_log = << >>
  /\ hold = [h \in Holders |-> Null]
  /\ hpc = [h \in Holders |-> "idle"]
  /\ any_failed = FALSE
  /\ BucketIdle
  /\ GsIdle
  /\ PipeInit
  /\ ParseIdle
  /\ RankIdle
  /\ ExtIdle

InitPipe == PoolIdle /\ TestIdle /\ NodeTesterInit /\ ResourceInit /\ PipeEnvInit

SpecPipe == InitPipe /\ [][PipeNext]_vars


\* ============================================================ parsers
\* parsers/base_parser.py and parsers/clash_parser.py. A function of Python
\* either raises or returns; a value of Python is None or an integer.

Val(v) == [raised |-> FALSE, none |-> FALSE, value |-> v]
PyNone == [raised |-> FALSE, none |-> TRUE, value |-> 0]
PyRaise == [raised |-> TRUE, none |-> FALSE, value |-> 0]

\* int(text): the number a decimal text denotes, ValueError otherwise
py_int(t) == IF t.text = "digits" THEN Val(t.value) ELSE PyRaise

\* urllib.parse: SplitResult.port is None without a port, and raises
\* ValueError for a port that is not a number in 0..65535
urlparse_port(t) ==
  IF t.text = "absent" THEN PyNone
  ELSE IF t.text = "digits" /\ t.value >= 0 /\ t.value <= MaxPort
    THEN Val(t.value)
    ELSE PyRaise

Node(type, port) == Some([type |-> type, port |-> port])

\* try: ... except Exception: return None
except_Exception(r) == IF r.raised THEN Returned(Null) ELSE r

\* _parse_vmess_url, lines 41-55: base64 and JSON decoding, then the dict;
\* vmess_config['port'] raises KeyError without a port
parse_vmess_body(u) ==
  IF u.body = "garbled" \/ u.port.text = "absent" THEN Raised
  ELSE IF py_int(u.port).raised THEN Raised
  ELSE Returned(Node("vmess", py_int(u.port).value))

parse_vmess_url(u) == except_Exception(parse_vmess_body(u))

\* _parse_vless_url, lines 63-97
parse_vless_body(u) ==
  LET port == urlparse_port(u.port)
  IN IF port.raised THEN Raised
     ELSE IF u.body = "garbled" \/ port.none THEN Returned(Null)
     ELSE IF port.value <= 0 \/ port.value > MaxPort THEN Returned(Null)
     ELSE Returned(Node("vless", port.value))

parse_vless_url(u) == except_Exception(parse_vless_body(u))

\* _parse_trojan_url, lines 105-125: int(str(parsed_url.port)); a missing
\* password is not looked at
parse_trojan_body(u) ==
  LET port == urlparse_port(u.port)
  IN IF port.raised THEN Raised
     ELSE IF port.none THEN Returned(Null)
     ELSE Returned(Node("trojan", port.value))

parse_trojan_url(u) == except_Exception(parse_trojan_body(u))

\* _parse_ss_server_part, lines 202-234
parse_ss_server_part(u) ==
  IF u.port.text = "absent" THEN Returned(Null)
  ELSE IF py_int(u.port).raised THEN Returned(Null)
  ELSE IF py_int(u.port).value <= 0 \/ py_int(u.port).value > MaxPort
    THEN Returned(Null)
    ELSE Returned(Node("shadowsocks", py_int(u.port).value))

\* _parse_shadowsocks_url, lines 132-184: none of the three formats matches a
\* garbled body
parse_shadowsocks_url(u) ==
  IF u.body = "garbled" THEN Returned(Null) ELSE parse_ss_server_part(u)

\* _parse_shadowsocksr_url, lines 240-284: without a port the main part does
\* not split into six
parse_shadowsocksr_body(u) ==
  IF u.body = "garbled" THEN Raised
  ELSE IF u.port.text = "absent" THEN Returned(Null)
  ELSE IF py_int(u.port).raised THEN Returned(Null)
  ELSE Returned(Node("shadowsocksr", py_int(u.port).value))

parse_shadowsocksr_url(u) == except_Exception(parse_shadowsocksr_body(u))

\* parse_node_url, lines 18-36
parse_node_url(u) ==
  IF u.scheme = "vmess" THEN parse_vmess_url(u)
  ELSE IF u.scheme = "vless" THEN parse_vless_url(u)
  ELSE IF u.scheme = "trojan" THEN parse_trojan_url(u)
  ELSE IF u.scheme = "ss" THEN parse_shadowsocks_url(u)
  ELSE IF u.scheme = "ssr" THEN parse_shadowsocksr_url(u)
  ELSE Returned(Null)

\* a Clash proxies entry: a dict with a type, maybe a port, and its other
\* keys (server; uuid or password), or something that is not a dict
ClashTypes == {"vmess", "vless", "trojan", "ss"}

NotADict == [shape |-> "str", type |-> "ss",
             port |-> [text |-> "absent", value |-> 0], keys |-> "ok"]

ClashEntries ==
  [shape : {"dict"}, type : ClashTypes, port : PortTexts,
   keys : {"ok", "no_server", "no_uuid"}] \cup {NotADict}

\* _parse_vmess, _parse_vless, _parse_trojan, clash_parser.py:24-61: the dict
\* display reads p['server'], then int(p['port']), then p['uuid'] or
\* p['password']; only KeyError is caught
parse_clash_entry(p) ==
  IF p.keys = "no_server" \/ p.port.text = "absent" THEN Returned(Null)
  ELSE IF py_int(p.port).raised THEN Raised
  ELSE IF p.keys = "no_uuid" THEN Returned(Null)
  ELSE Returned(Node(p.type, py_int(p.port).value))

\* the body of the loop of parse_clash_proxies, lines 9-21
clash_step(p) ==
  IF p.shape # "dict" THEN Raised
  ELSE IF p.type \in {"vmess", "vless", "trojan"} THEN parse_clash_entry(p)
  ELSE Returned(Null)

\* parse_clash_proxies, lines 7-22
parse_clash_proxies(ps) ==
  LET loop[k \in 0..Len(ps)] ==
        IF k = 0 THEN [raised |-> FALSE, nodes |-> << >>]
        ELSE IF loop[k - 1].raised THEN loop[k - 1]
        ELSE LET r == clash_step(ps[k])
             IN IF r.raised THEN [raised |-> TRUE, nodes |-> << >>]
                ELSE IF r.node = Null THEN loop[k - 1]
                ELSE [raised |-> FALSE,
                      nodes |-> Append(loop[k - 1].nodes, r.node[1])]
  IN loop[Len(ps)]

parseRest == << poolVars, testVars, nodeTesterVars, resourceVars, now, os_bound,
                release_log, hold, hpc, any_failed, bucketVars, gsVars,
                pipeVars, rankVars, extVars >>

\* a call of parse_node_url(url)
ParseNodeUrl ==
  /\ parse_pc = "url"
  /\ parsed' = parse_node_url(url)
  /\ parse_pc' = "url_done"
  /\ UNCHANGED << url, proxies, clash_out, parseRest >>

\* a call of parse_clash_proxies(proxies)
ParseClashProxies ==
  /\ parse_pc = "clash"
  /\ clash_out' = parse_clash_proxies(proxies)
  /\ parse_pc' = "clash_done"
  /\ UNCHANGED << url, proxies, parsed, parseRest >>

ParseNext == ParseNodeUrl \/ ParseClashProxies

ParseInit ==
  /\ parse_pc \in {"url", "clash"}
  /\ url \in Urls
  /\ proxies \in UNION { [1..n -> ClashEntries] : n \in 0..MaxProxies }
  /\ (parse_pc = "url" => proxies = << >>)
  /\ (parse_pc = "clash" => url = NoUrl)
  /\ parsed = Returned(Null)
  /\ clash_out = [raised |-> FALSE, nodes |-> << >>]

ParseEnvInit ==
  /\ now = 0
  /\ os_bound = {}
  /\ release_log = << >>
  /\ hold = [h \in Holders |-> Null]
  /\ hpc = [h \in Holders |-> "idle"]
  /\ any_failed = FALSE
  /\ BucketIdle
  /\ GsIdle
  /\ PipeIdle
  /\ ParseInit
  /\ RankIdle
  /\ ExtIdle

InitParse == PoolIdle /\ TestIdle /\ NodeTesterInit /\ ResourceInit /\ ParseEnvInit

SpecParse == InitParse /\ [][ParseNext]_vars


\* ============================================================ ranker
\* StatsMonitor.get_top_nodes (stats_monitor.py:181-190) and
\* ResultUploader._generate_summary (uploader.py:52-70). A result is kept by
\* its status, its speed and its latency (the keys speed and latency of
\* node_results, download_speed and http_latency of a Result).

RankResults ==
  [status : {"success"}, speed : 1..MaxRankSpeed, latency : 1..MaxRankLatency]
    \cup {[status |-> "failed", speed |-> 0, latency |-> 0]}

\* list.sort(key=lambda x: x.get('speed', 0), reverse=True): a stable sort,
\* elements of equal key keep their order
sort_by_speed_reverse(q) ==
  LET before(i) == { j \in 1..Len(q) :
                       \/ q[j].speed > q[i].speed
                       \/ (q[j].speed = q[i].speed /\ j < i) }
  IN [k \in 1..Len(q) |->
        q[CHOOSE i \in 1..Len(q) : Cardinality(before(i)) = k - 1]]

\* lines 185 and 54: the successful results, in list order
success_nodes(q) == SelectSeq(q, LAMBDA r : r.status = "success")

\* get_top_nodes, lines 183-190
get_top_nodes(q, limit) == Take(sort_by_speed_reverse(success_nodes(q)), limit)

rankRest == << poolVars, testVars, nodeTesterVars, resourceVars, now, os_bound,
               release_log, hold, hpc, any_failed, bucketVars, gsVars,
               pipeVars, parseVars, extVars >>

\* a call of get_top_nodes() with the default limit
GetTopNodes ==
  /\ "top" \notin rank_done
  /\ top_nodes' = get_top_nodes(node_results, TopLimit)
  /\ rank_done' = rank_done \cup {"top"}
  /\ UNCHANGED << node_results, summary_top, rankRest >>

\* _generate_summary, lines 54-61: top_nodes is the first ten successes
GenerateSummary ==
  /\ "summary" \notin rank_done
  /\ summary_top' = Take(success_nodes(node_results), SummaryTop)
  /\ rank_done' = rank_done \cup {"summary"}
  /\ UNCHANGED << node_results, top_nodes, rankRest >>

RankNext == GetTopNodes \/ GenerateSummary

\* the results of a finished run, in the order they arrived
RankInit ==
  /\ node_results \in UNION { [1..n -> RankResults] : n \in 0..MaxResults }
  /\ top_nodes = << >>
  /\ summary_top = << >>
  /\ rank_done = {}

RankEnvInit ==
  /\ now = 0
  /\ os_bound = {}
  /\ release_log = << >>
  /\ hold = [h \in Holders |-> Null]
  /\ hpc = [h \in Holders |-> "idle"]
  /\ any_failed = FALSE
  /\ BucketIdle
  /\ GsIdle
  /\ PipeIdle
  /\ ParseIdle
  /\ RankInit
  /\ ExtIdle

InitRank == PoolIdle /\ TestIdle /\ NodeTesterInit /\ ResourceInit /\ RankEnvInit

SpecRank == InitRank /\ [][RankNext]_vars

\* ============ the asyncio locks of the book-keeping and their sections

Op(kind, lock) == [kind |-> kind, lock |-> lock]

\* (mutant) _release_port sleeps inside its "async with"
NodeTester_release_port_SleepsInside ==
  << Op("acquire", "port_lock"), Op("sync", "port_lock"),
     Op("sleep", "none"), Op("release", "port_lock") >>

\* NodeTester._allocate_port, lines 44-69: the whole body is inside the
\* "async with" and has no await
NodeTester_allocate_port ==
  << Op("acquire", "port_lock"), Op("sync", "port_lock"),
     Op("release", "port_lock") >>

\* NodeTester._release_port, lines 73-81: the book is updated under the lock,
\* the sleep comes after the "async with" block
NodeTester_release_port ==
  << Op("acquire", "port_lock"), Op("sync", "port_lock"),
     Op("release", "port_lock"), Op("sleep", "none") >>

\* PortManager.allocate_port, lines 157-187: prune, scan (psutil is called
\* synchronously), record; no await inside
PortManager_allocate_port ==
  << Op("acquire", "pm_lock"), Op("sync", "pm_lock"), Op("release", "pm_lock") >>

\* PortManager.release_port, lines 196-202
PortManager_release_port ==
  << Op("acquire", "pm_lock"), Op("sync", "pm_lock"), Op("release", "pm_lock") >>

\* PortManager.cleanup_all, lines 216-219
PortManager_cleanup_all ==
  << Op("acquire", "pm_lock"), Op("sync", "pm_lock"), Op("release", "pm_lock") >>

\* ProcessManager.terminate_process of a running process, lines 84-95, and
\* the _cleanup_process it ends with, lines 104-108: terminate(), the wait
\* for the process, then the registry is updated under the lock
ProcessManager_terminate_process ==
  << Op("sync", "none"), Op("wait", "none"), Op("acquire", "cleanup_lock"),
     Op("sync", "cleanup_lock"), Op("release", "cleanup_lock") >>

Coroutines ==
  {"NodeTester_allocate_port", "NodeTester_release_port",
   "PortManager_allocate_port", "PortManager_release_port",
   "PortManager_cleanup_all", "ProcessManager_terminate_process"}

Program(name) ==
  CASE name = "NodeTester_allocate_port" -> NodeTester_allocate_port
    [] name = "NodeTester_release_port" -> NodeTester_release_port
    [] name = "PortManager_allocate_port" -> PortManager_allocate_port
    [] name = "PortManager_release_port" -> PortManager_release_port
    [] name = "PortManager_cleanup_all" -> PortManager_cleanup_all
    [] name = "ProcessManager_terminate_process" -> ProcessManager_terminate_process
    [] OTHER -> << >>

\* the operations at which a coroutine hands control back to the event loop
Suspending == {"sleep", "wait"}

lockRest == << poolVars, testVars, nodeTesterVars, resourceVars, envRest,
               poolHist, resHist, lateVars >>

\* a coroutine of the book-keeping is called; its task is ready to run
CoStart(t, name) ==
  /\ running = 0
  /\ co_prog[t] = "idle"
  /\ co_prog' = [co_prog EXCEPT ![t] = name]
  /\ co_pc' = [co_pc EXCEPT ![t] = 1]
  /\ UNCHANGED << lk_holder, co_asleep, running, lockRest >>

\* the event loop runs task t for one operation.  A task keeps the loop until
\* it sleeps, waits, finds its lock taken or returns.
CoStep(t) ==
  /\ co_prog[t] # "idle"
  /\ ~co_asleep[t]
  /\ running \in {0, t}
  /\ LET prog == Program(co_prog[t])
     IN IF co_pc[t] > Len(prog)
          THEN /\ co_prog' = [co_prog EXCEPT ![t] = "idle"]
               /\ co_pc' = [co_pc EXCEPT ![t] = 0]
               /\ running' = 0
               /\ UNCHANGED << lk_holder, co_asleep >>
          ELSE LET op == prog[co_pc[t]]
               IN CASE op.kind = "acquire" ->
                         IF lk_holder[op.lock] = 0
                           THEN /\ lk_holder' = [lk_holder EXCEPT ![op.lock] = t]
                                /\ co_pc' = [co_pc EXCEPT ![t] = @ + 1]
                                /\ running' = t
                                /\ UNCHANGED << co_prog, co_asleep >>
                           ELSE /\ running = t
                                /\ running' = 0
                                /\ UNCHANGED << lk_holder, co_prog, co_pc, co_asleep >>
                    [] op.kind = "release" ->
                         /\ lk_holder' = [lk_holder EXCEPT ![op.lock] = 0]
                         /\ co_pc' = [co_pc EXCEPT ![t] = @ + 1]
                         /\ running' = t
                         /\ UNCHANGED << co_prog, co_asleep >>
                    [] op.kind = "sync" ->
                         /\ co_pc' = [co_pc EXCEPT ![t] = @ + 1]
                         /\ running' = t
                         /\ UNCHANGED << lk_holder, co_prog, co_asleep >>
                    [] op.kind \in Suspending ->
                         /\ co_asleep' = [co_asleep EXCEPT ![t] = TRUE]
                         /\ running' = 0
                         /\ UNCHANGED << lk_holder, co_prog, co_pc >>
  /\ UNCHANGED lockRest

\* the sleep is over or the awaited process has exited: task t resumes
CoWake(t) ==
  /\ running = 0
  /\ co_asleep[t]
  /\ co_asleep' = [co_asleep EXCEPT ![t] = FALSE]
  /\ co_pc' = [co_pc EXCEPT ![t] = @ + 1]
  /\ running' = t
  /\ UNCHANGED << lk_holder, co_prog, lockRest >>

LocksNext ==
  \/ \E t \in Tasks, name \in Coroutines : CoStart(t, name)
  \/ \E t \in Tasks : CoStep(t)
  \/ \E t \in Tasks : CoWake(t)

InitLocks == PoolIdle /\ TestIdle /\ NodeTesterInit /\ ResourceInit /\ EnvInit

SpecLocks == InitLocks /\ [][LocksNext]_vars

\* ======== nested subscriptions (main.py:213-221, 368-440)

\* everything the components above are made of
earlyVars == << poolVars, testVars, nodeTesterVars, resourceVars, envRest,
                poolHist, resHist, lockVars >>

\* none of the components above has started
EarlyIdle ==
  /\ PoolIdle
  /\ TestIdle
  /\ NodeTesterInit
  /\ ResourceInit
  /\ now = 0
  /\ os_bound = {}
  /\ release_log = << >>
  /\ hold = [h \in Holders |-> Null]
  /\ hpc = [h \in Holders |-> "idle"]
  /\ any_failed = FALSE
  /\ BucketIdle
  /\ GsIdle
  /\ PipeIdle
  /\ ParseIdle
  /\ RankIdle
  /\ PoolHistIdle
  /\ ResHistIdle
  /\ LocksIdle

\* a line of a decoded subscription body (lines 425-436): a node URI, the
\* URL of a subscription (starts with http and contains "sub"), anything else
Line(kind, u) == [kind |-> kind, url |-> u]

BodyLines == {Line("node", 0), Line("other", 0)} \cup {Line("sub", u) : u \in SubUrls}

RECURSIVE SeqsUpTo(_, _)
SeqsUpTo(S, n) ==
  IF n = 0 THEN {<< >>}
  ELSE LET shorter == SeqsUpTo(S, n - 1)
       IN shorter \cup {Append(q, x) : q \in {r \in shorter : Len(r) = n - 1}, x \in S}

\* the bodies a source can serve; the empty one is the "" that
\* fetch_subscription_content returns for a source it cannot reach
Bodies == SeqsUpTo(BodyLines, MaxBodyLines)

\* a call of parse_nodes_from_content: best_text as lines, the line the loop
\* of line 425 is at, len(nodes)
Frame(lines) == [lines |-> lines, line |-> 1, nodes |-> 0]

nestRest == << earlyVars, directVars, runVars, collectVars, reportVars, readVars,
               speedVars, genVars >>

\* _fetch_and_parse_single(url), lines 213-221, up to the first call of
\* parse_nodes_from_content
FetchAndParseSingle(u) ==
  /\ px_pc = "idle"
  /\ IF sub_web[u] = << >>
       THEN /\ px_pc' = "returned"
            /\ px_out' = 0
            /\ UNCHANGED px_stack
       ELSE /\ px_pc' = "parsing"
            /\ px_stack' = << Frame(sub_web[u]) >>
            /\ UNCHANGED px_out
  /\ UNCHANGED << sub_web, nestRest >>

\* one turn of the loop of lines 425-436 in the innermost call.  A
\* subscription line is fetched and, when the source answers, parsed by a
\* new call of the same function; nothing counts the nesting or remembers
\* the URLs already seen.  The interpreter ends the nesting with a
\* RecursionError, which no call catches before _fetch_and_parse_single
\* (line 220) turns it into an empty list.
ParseLine ==
  /\ px_pc = "parsing"
  /\ LET d == Len(px_stack)
         f == px_stack[d]
     IN /\ f.line <= Len(f.lines)
        /\ LET l == f.lines[f.line]
           IN CASE l.kind = "node" ->
                     /\ px_stack' = [px_stack EXCEPT ![d].nodes = @ + 1,
                                                     ![d].line = @ + 1]
                     /\ UNCHANGED << px_pc, px_out >>
                [] l.kind = "other" ->
                     /\ px_stack' = [px_stack EXCEPT ![d].line = @ + 1]
                     /\ UNCHANGED << px_pc, px_out >>
                [] OTHER ->
                     IF sub_web[l.url] = << >>
                       THEN /\ px_stack' = [px_stack EXCEPT ![d].line = @ + 1]
                            /\ UNCHANGED << px_pc, px_out >>
                       ELSE IF d >= MaxFrames
                         THEN /\ px_stack' = << >>
                              /\ px_pc' = "recursion_error"
                              /\ px_out' = 0
                         ELSE /\ px_stack' = Append(px_stack, Frame(sub_web[l.url]))
                              /\ UNCHANGED << px_pc, px_out >>
  /\ UNCHANGED << sub_web, nestRest >>

\* line 438: the innermost call returns its nodes; the caller extends its own
\* list with them (line 436) and goes on with its next line
ParseReturn ==
  /\ px_pc = "parsing"
  /\ LET d == Len(px_stack)
         f == px_stack[d]
     IN /\ f.line > Len(f.lines)
        /\ IF d = 1
             THEN /\ px_stack' = << >>
                  /\ px_pc' = "returned"
                  /\ px_out' = f.nodes
             ELSE /\ px_stack' = [SubSeq(px_stack, 1, d - 1) EXCEPT
                                    ![d - 1].nodes = @ + f.nodes,
                                    ![d - 1].line = @ + 1]
                  /\ UNCHANGED << px_pc, px_out >>
  /\ UNCHANGED << sub_web, nestRest >>

NestNext ==
  \/ \E u \in SubUrls : FetchAndParseSingle(u)
  \/ ParseLine
  \/ ParseReturn

InitNest ==
  /\ EarlyIdle
  /\ sub_web \in [SubUrls -> Bodies]
  /\ px_stack = << >>
  /\ px_pc = "idle"
  /\ px_out = 0
  /\ DirectIdle
  /\ RunsIdle
  /\ CollectIdle
  /\ ReportIdle
  /\ ReadIdle
  /\ SpeedIdle
  /\ GenIdle

SpecNest == InitNest /\ [][NestNext]_vars

\* ======== the direct protocol probe (direct_proxy_tester.py:78-349)

NodeTypes == {"shadowsocks", "vmess", "vless", "trojan", "other"}

\* the events of one attempt.  asyncio.wait_for ends the connect at
\* self.timeout, so a connect fails by itself no later than that; the time
\* after an established connection includes the wait for the reply.
NetEvents(timeout) ==
  {NetEvent(c, "none", e) :
     c \in {"refused", "unreachable", "dns_failure"}, e \in 1..timeout}
  \cup {NetEvent("timeout", "none", timeout)}
  \cup {NetEvent("established", a, e) :
          a \in {"reply", "read_timeout", "reset"}, e \in 1..MaxElapsed}

\* the exception the event raises in the probe: open_connection raises
\* ConnectionRefusedError for a refused connect, socket.gaierror for a name
\* that does not resolve and OSError for an unreachable network, wait_for
\* raises TimeoutError, a reset connection raises ConnectionResetError in
\* drain or read.  A read timeout is caught inside (lines 107-111).
RaisedBy(ev) ==
  CASE ev.connect = "refused" -> "ConnectionRefusedError"
    [] ev.connect = "timeout" -> "TimeoutError"
    [] ev.connect = "dns_failure" -> "gaierror"
    [] ev.connect = "unreachable" -> "OSError"
    [] ev.after = "reset" -> "ConnectionResetError"
    [] OTHER -> "none"

\* test_shadowsocks_connectivity, test_vmess_connectivity and
\* test_vless_connectivity, lines 78-238: the three bodies are the same.
\* The last except clause returns the elapsed time for every other exception
\* that came before self.timeout had passed.
test_protocol_connectivity(timeout, ev) ==
  CASE RaisedBy(ev) = "none" -> Some(ev.elapsed)
    [] RaisedBy(ev) = "TimeoutError" -> Null
    [] RaisedBy(ev) = "ConnectionRefusedError" -> Null
    [] OTHER -> IF ev.elapsed < timeout THEN Some(ev.elapsed) ELSE Null

\* test_trojan_connectivity, lines 240-289: every exception returns None
test_trojan_connectivity(timeout, ev) ==
  IF RaisedBy(ev) = "none" THEN Some(ev.elapsed) ELSE Null

directRest == << earlyVars, nestVars, runVars, collectVars, reportVars, readVars,
               speedVars, genVars >>

\* test_node_direct_connectivity, lines 295-301: a node without server or
\* port is not probed
DirectStart ==
  /\ dp_pc = "idle"
  /\ IF dp_node.addressed
       THEN /\ dp_pc' = "attempt"
            /\ UNCHANGED dp_result
       ELSE /\ dp_pc' = "returned"
            /\ dp_result' = Null
  /\ UNCHANGED << dp_timeout, dp_node, dp_attempt, dp_event, directRest >>

\* one turn of the loop of lines 306-347: a latency is returned at once, an
\* unsupported type returns None at once, a None from the probe goes on to
\* the next attempt and the loop ends after retry_count attempts.  (The
\* probes catch every Exception, so the except clause of line 338 is not met.)
DirectAttempt(ev) ==
  /\ dp_pc = "attempt"
  /\ IF dp_node.type = "other"
       THEN /\ dp_pc' = "returned"
            /\ dp_result' = Null
            /\ UNCHANGED << dp_attempt, dp_event >>
       ELSE LET r == IF dp_node.type = "trojan"
                       THEN test_trojan_connectivity(dp_timeout, ev)
                       ELSE test_protocol_connectivity(dp_timeout, ev)
            IN /\ dp_attempt' = dp_attempt + 1
               /\ dp_event' = ev
               /\ dp_result' = r
               /\ dp_pc' = IF r # Null \/ dp_attempt + 1 = RetryCount
                             THEN "returned" ELSE "attempt"
  /\ UNCHANGED << dp_timeout, dp_node, directRest >>

DirectNext ==
  \/ DirectStart
  \/ \E ev \in NetEvents(dp_timeout) : DirectAttempt(ev)

InitDirect ==
  /\ EarlyIdle
  /\ NestIdle
  /\ dp_timeout \in 1..MaxElapsed
  /\ dp_node \in [type : NodeTypes, addressed : BOOLEAN]
  /\ dp_pc = "idle"
  /\ dp_attempt = 0
  /\ dp_event = NoEvent
  /\ dp_result = Null
  /\ RunsIdle
  /\ CollectIdle
  /\ ReportIdle
  /\ ReadIdle
  /\ SpeedIdle
  /\ GenIdle

SpecDirect == InitDirect /\ [][DirectNext]_vars

\* ======== several runs of the pool in one process

\* global_stats at the start of the next run.  It is the module-level
\* singleton of rate_limiter.py:200 (__new__ returns the one instance, lines
\* 138-144, and __init__ does nothing once _initialized is set, 146-153);
\* neither WorkerPool.__init__ nor run_tests touches it, and reset (181-187)
\* has no caller.
NextRunStats(s) == s

\* a run has returned; the process constructs a WorkerPool (lines 21-37) for
\* the next list of nodes and is about to call its run_tests
NewRun ==
  /\ rpc = "returned"
  /\ runs + 1 < MaxRuns
  /\ runs' = runs + 1
  /\ num_nodes' \in 0..MaxNodes
  /\ worker_count' \in 1..MaxWorkers
  /\ success_limit' \in 0..MaxLimit
  /\ task_queue' = << >>
  /\ result_queue' = << >>
  /\ results' = << >>
  /\ progress' = 0
  /\ successful_count' = 0
  /\ force_stop' = FALSE
  /\ workers' = {}
  /\ wpc' = [w \in WorkerIds |-> "none"]
  /\ wtask' = [w \in WorkerIds |-> 0]
  /\ dpc' = "none"
  /\ dist_index' = 0
  /\ dist_sent' = 0
  /\ cpc' = "none"
  /\ rpc' = "init"
  /\ stats' = NextRunStats(stats)
  /\ any_failed' = FALSE
  /\ started' = << >>
  /\ after_cap' = 0
  /\ UNCHANGED << testVars, nodeTesterVars, resourceVars, now, os_bound,
                  release_log, hold, hpc, utilRest, resHist, lockVars,
                  nestVars, directVars, collectVars, reportVars, readVars,
                  speedVars, genVars >>

RunsNext == PoolNext \/ NewRun

SpecRuns == InitPool /\ [][RunsNext]_vars

\* ======== collect_nodes_concurrently (main.py:223-267)
\* The tasks run on one event loop, so each action is what a task does
\* between two of its suspension points.  The bodies of the two
\* "async with lock" blocks (lines 233, 258) contain no await: the lock is
\* free whenever a task reaches it and is not a suspension point here.

collectRest == << earlyVars, nestVars, directVars, runVars, reportVars, readVars,
               speedVars, genVars >>

\* (mutant) the tasks that are not done are left running
cancel_remaining_None(ts) == ts

\* lines 262-265: cancel() for every task that is not done
cancel_remaining(ts) ==
  [u \in DOMAIN ts |->
     CASE ts[u] = "fetching" -> "cancelling_fetch"
       [] ts[u] \in {"created", "sem_wait"} -> "cancelling"
       [] OTHER -> ts[u]]

\* the tasks inside "async with semaphore": their fetch is in flight
InFlight == {u \in FetchUrls : tasks[u] \in {"fetching", "cancelling_fetch"}}

\* lines 225-253: the semaphore is made and one task per URL is created.
\* Without a URL the loops of lines 256 and 263 have nothing to do and the
\* empty list is returned.
CollectStart ==
  /\ cmain = "idle"
  /\ semaphore' = concurrency
  /\ collected' = 0
  /\ tasks' = [u \in FetchUrls |-> IF u <= num_urls THEN "created" ELSE "none"]
  /\ cmain' = IF num_urls = 0 THEN "returned" ELSE "as_completed"
  /\ UNCHANGED << num_urls, max_nodes, concurrency, consumed, collect_out,
                  collectRest >>

\* worker, lines 231-232: the task runs for the first time and takes a permit
\* or waits for one
WorkerBegin(u) ==
  /\ tasks[u] = "created"
  /\ IF semaphore > 0
       THEN /\ semaphore' = semaphore - 1
            /\ tasks' = [tasks EXCEPT ![u] = "fetching"]
       ELSE /\ tasks' = [tasks EXCEPT ![u] = "sem_wait"]
            /\ UNCHANGED semaphore
  /\ UNCHANGED << num_urls, max_nodes, concurrency, collected, cmain, consumed,
                  collect_out, collectRest >>

\* a waiting task is given a released permit
WorkerAcquire(u) ==
  /\ tasks[u] = "sem_wait"
  /\ semaphore > 0
  /\ semaphore' = semaphore - 1
  /\ tasks' = [tasks EXCEPT ![u] = "fetching"]
  /\ UNCHANGED << num_urls, max_nodes, concurrency, collected, cmain, consumed,
                  collect_out, collectRest >>

\* worker, lines 232-247: _fetch_and_parse_single returned n nodes (it
\* catches every Exception, line 220); they are added to collected, the
\* permit is released and the task is done
WorkerFetched(u, n) ==
  /\ tasks[u] = "fetching"
  /\ collected' = collected + n
  /\ semaphore' = semaphore + 1
  /\ tasks' = [tasks EXCEPT ![u] = "done"]
  /\ UNCHANGED << num_urls, max_nodes, concurrency, cmain, consumed,
                  collect_out, collectRest >>

\* lines 256-267: the loop awaits the next completed task and compares
\* len(collected) with max_nodes; it ends when the cap is reached or every
\* task has been awaited.  What follows the loop has no await: the tasks
\* not done are cancelled and collected[:max_nodes] is returned.
CollectAwaitNext ==
  /\ cmain = "as_completed"
  /\ consumed < Cardinality({u \in FetchUrls : tasks[u] = "done"})
  /\ consumed' = consumed + 1
  /\ IF collected >= max_nodes \/ consumed + 1 = num_urls
       THEN /\ tasks' = cancel_remaining(tasks)
            /\ collect_out' = Min(collected, max_nodes)
            /\ cmain' = "returned"
       ELSE UNCHANGED << tasks, collect_out, cmain >>
  /\ UNCHANGED << num_urls, max_nodes, concurrency, semaphore, collected,
                  collectRest >>

\* the CancelledError reaches a cancelled task at the await it is suspended
\* in (a task that never ran does not start); a task inside
\* "async with semaphore" gives its permit back
CancelDelivered(u) ==
  /\ tasks[u] \in {"cancelling", "cancelling_fetch"}
  /\ tasks' = [tasks EXCEPT ![u] = "cancelled"]
  /\ semaphore' = IF tasks[u] = "cancelling_fetch" THEN semaphore + 1 ELSE semaphore
  /\ UNCHANGED << num_urls, max_nodes, concurrency, collected, cmain, consumed,
                  collect_out, collectRest >>

CollectNext ==
  \/ CollectStart
  \/ \E u \in FetchUrls : WorkerBegin(u)
  \/ \E u \in FetchUrls : WorkerAcquire(u)
  \/ \E u \in FetchUrls, n \in 0..MaxYield : WorkerFetched(u, n)
  \/ CollectAwaitNext
  \/ \E u \in FetchUrls : CancelDelivered(u)

InitCollect ==
  /\ EarlyIdle
  /\ NestIdle
  /\ DirectIdle
  /\ RunsIdle
  /\ num_urls \in 0..MaxFetchUrls
  /\ max_nodes \in 1..MaxCap
  /\ concurrency \in 1..MaxCap
  /\ semaphore = 0
  /\ collected = 0
  /\ tasks = [u \in FetchUrls |-> "none"]
  /\ cmain = "idle"
  /\ consumed = 0
  /\ collect_out = 0
  /\ ReportIdle
  /\ ReadIdle
  /\ SpeedIdle
  /\ GenIdle

SpecCollect == InitCollect /\ [][CollectNext]_vars

\* ======== ProgressReporter beside a run of the pool

\* start_reporting, line 215: the condition that ends the loop.  total_nodes
\* is the length of the node list the pool was given.
ReportingDone == progress >= num_nodes \/ force_stop

\* start_reporting(worker_pool) is started as a task beside run_tests and
\* enters its loop (lines 207-209)
ReporterStart ==
  /\ rep_pc = "none"
  /\ rep_pc' = "loop"
  /\ UNCHANGED << earlyVars, nestVars, directVars, runVars, collectVars, readVars,
                  speedVars, genVars >>

\* one turn of the loop, lines 209-219, that finds the condition of line 215
\* true: the final progress is printed and the coroutine returns.  A turn
\* that finds it false sleeps 0.1 s and changes nothing.
ReporterCheck ==
  /\ rep_pc = "loop"
  /\ ReportingDone
  /\ rep_pc' = "returned"
  /\ UNCHANGED << earlyVars, nestVars, directVars, runVars, collectVars, readVars,
                  speedVars, genVars >>

ReportNext == PoolNext \/ ReporterStart \/ ReporterCheck

\* the reporter's task is run by the same event loop as the pool's tasks
SpecReportLive ==
  /\ InitPool
  /\ [][ReportNext]_vars
  /\ PoolFairness
  /\ WF_vars(ReporterStart \/ ReporterCheck)

\* ======== the read operations of the statistics objects
\* rate_limiter.py:170-197 and stats_monitor.py:115-200.  Both objects guard
\* their fields with a threading.Lock (rate_limiter.py:152,
\* stats_monitor.py:41), which is not reentrant: acquire blocks while the
\* lock is held, whoever holds it.  Each operation is the sequence of what it
\* does to the locks, the calls it makes to other methods written out.

\* GlobalStats.get_total_gb, lines 170-173
GlobalStats_get_total_gb ==
  << Op("acquire", "gs_lock"), Op("read", "gs_lock"), Op("release", "gs_lock") >>

\* GlobalStats.get_success_rate, lines 175-180
GlobalStats_get_success_rate ==
  << Op("acquire", "gs_lock"), Op("read", "gs_lock"), Op("release", "gs_lock") >>

\* GlobalStats.get_stats_summary, lines 190-197: the f-string is evaluated
\* inside the with block and calls get_total_gb, reads three counters and
\* calls get_success_rate
GlobalStats_get_stats_summary ==
  << Op("acquire", "gs_lock") >> \o GlobalStats_get_total_gb
     \o << Op("read", "gs_lock") >> \o GlobalStats_get_success_rate
     \o << Op("release", "gs_lock") >>

\* StatsMonitor.get_stats, lines 115-150
StatsMonitor_get_stats ==
  << Op("acquire", "sm_lock"), Op("read", "sm_lock"), Op("release", "sm_lock") >>

\* StatsMonitor.get_formatted_summary, lines 152-154: calls get_stats and
\* formats the dict
StatsMonitor_get_formatted_summary == StatsMonitor_get_stats

\* StatsMonitor.get_top_nodes, lines 181-190
StatsMonitor_get_top_nodes ==
  << Op("acquire", "sm_lock"), Op("read", "sm_lock"), Op("release", "sm_lock") >>

\* StatsMonitor.export_results, lines 192-200: the dict is built inside the
\* with block and calls get_stats and get_top_nodes
StatsMonitor_export_results ==
  << Op("acquire", "sm_lock") >> \o StatsMonitor_get_stats \o StatsMonitor_get_top_nodes
     \o << Op("read", "sm_lock"), Op("release", "sm_lock") >>

ReadOps ==
  {"get_total_gb", "get_success_rate", "get_stats_summary", "get_stats",
   "get_formatted_summary", "get_top_nodes", "export_results"}

ReadProgram(name) ==
  CASE name = "get_total_gb" -> GlobalStats_get_total_gb
    [] name = "get_success_rate" -> GlobalStats_get_success_rate
    [] name = "get_stats_summary" -> GlobalStats_get_stats_summary
    [] name = "get_stats" -> StatsMonitor_get_stats
    [] name = "get_formatted_summary" -> StatsMonitor_get_formatted_summary
    [] name = "get_top_nodes" -> StatsMonitor_get_top_nodes
    [] name = "export_results" -> StatsMonitor_export_results
    [] OTHER -> << >>

\* the thread holding the named lock, 0 when it is free
Holder(lock) == IF lock = "gs_lock" THEN gs_lock ELSE sm_lock

readRest == << poolVars, testVars, nodeTesterVars, resourceVars, now, os_bound,
               release_log, hold, hpc, any_failed, bucketVars, total_bytes,
               thr_pc, thr_arg, thr_tmp, calls, done_bytes, done_success,
               done_failed, contended, pipeVars, parseVars, rankVars, poolHist,
               resHist, lockVars, nestVars, directVars, runVars, collectVars,
               reportVars, speedVars, genVars >>

\* a thread calls one of the read operations
ReadCall(t, name) ==
  /\ rd_op[t] = "idle"
  /\ rd_op' = [rd_op EXCEPT ![t] = name]
  /\ rd_at' = [rd_at EXCEPT ![t] = 1]
  /\ UNCHANGED << gs_lock, sm_lock, readRest >>

\* the thread does the next thing of its operation: it enters a with block
\* when the lock is free, reads fields, or leaves a with block
ReadStep(t) ==
  /\ rd_op[t] # "idle"
  /\ rd_at[t] <= Len(ReadProgram(rd_op[t]))
  /\ LET op == ReadProgram(rd_op[t])[rd_at[t]]
     IN CASE op.kind = "acquire" ->
               /\ Holder(op.lock) = 0
               /\ gs_lock' = IF op.lock = "gs_lock" THEN t ELSE gs_lock
               /\ sm_lock' = IF op.lock = "sm_lock" THEN t ELSE sm_lock
          [] op.kind = "release" ->
               /\ gs_lock' = IF op.lock = "gs_lock" THEN 0 ELSE gs_lock
               /\ sm_lock' = IF op.lock = "sm_lock" THEN 0 ELSE sm_lock
          [] OTHER -> UNCHANGED << gs_lock, sm_lock >>
  /\ rd_at' = [rd_at EXCEPT ![t] = @ + 1]
  /\ UNCHANGED << rd_op, readRest >>

\* the operation returns to its caller
ReadReturn(t) ==
  /\ rd_op[t] # "idle"
  /\ rd_at[t] > Len(ReadProgram(rd_op[t]))
  /\ rd_op' = [rd_op EXCEPT ![t] = "idle"]
  /\ rd_at' = [rd_at EXCEPT ![t] = 0]
  /\ UNCHANGED << gs_lock, sm_lock, readRest >>

ReadNext ==
  \/ \E t \in Threads, name \in ReadOps : ReadCall(t, name)
  \/ \E t \in Threads : ReadStep(t)
  \/ \E t \in Threads : ReadReturn(t)

SpecRead == InitStats /\ [][ReadNext]_vars

\* ======== _test_download_speed calls sharing one configuration
\* node_tester.py:366-435 and 851-877.  The calls are coroutines of one event
\* loop; each action is what a call does between two of its sleeps.
\* _test_native_protocol_speed has no await: it reads speed_url from the
\* shared configuration (line 867) and downloads with blocking sockets.
\* speed_test_repeats is 1, the default of line 373.

SpeedUrlIds == 1..MaxSpeedUrls

speedRest == << earlyVars, nestVars, directVars, runVars, collectVars, reportVars,
                readVars, genVars >>

\* lines 376-379 and the first turn of the loop of line 385 up to the sleep
\* of line 391: the list of URLs is read, speed_url is saved in
\* original_speed_url and overwritten with the first test_url
SpeedBegin(c) ==
  /\ sd_pc[c] = "idle"
  /\ LET urls == IF speed_urls = << >> THEN << speed_url >> ELSE speed_urls
     IN /\ sd_urls' = [sd_urls EXCEPT ![c] = urls]
        /\ sd_k' = [sd_k EXCEPT ![c] = 1]
        /\ original_speed_url' = [original_speed_url EXCEPT ![c] = speed_url]
        /\ speed_url' = urls[1]
  /\ sd_retry' = [sd_retry EXCEPT ![c] = 0]
  /\ sd_pc' = [sd_pc EXCEPT ![c] = "switched"]
  /\ UNCHANGED << speed_urls, speed_url_before, sd_foreign, speedRest >>

\* lines 396-426 after the sleep of line 391 or of line 416: one
\* _test_native_protocol_speed call, which downloads from the speed_url of
\* the configuration as it is now.  A speed ends the retries: speed_url is
\* set back to original_speed_url and the function returns.  A failure
\* sleeps 2 s before the next retry; after the last retry speed_url is set
\* back and the call sleeps 3 s before the next URL (line 435).
SpeedMeasure(c, ok) ==
  /\ sd_pc[c] \in {"switched", "retry_wait"}
  /\ sd_foreign' = (sd_foreign \/ speed_url # sd_urls[c][sd_k[c]])
  /\ IF ok
       THEN /\ speed_url' = original_speed_url[c]
            /\ sd_pc' = [sd_pc EXCEPT ![c] = "done"]
            /\ UNCHANGED sd_retry
       ELSE IF sd_retry[c] < SpeedRetryCount - 1
         THEN /\ sd_retry' = [sd_retry EXCEPT ![c] = @ + 1]
              /\ sd_pc' = [sd_pc EXCEPT ![c] = "retry_wait"]
              /\ UNCHANGED speed_url
         ELSE /\ speed_url' = original_speed_url[c]
              /\ sd_pc' = [sd_pc EXCEPT ![c] = "next_wait"]
              /\ UNCHANGED sd_retry
  /\ UNCHANGED << speed_urls, sd_urls, sd_k, original_speed_url,
                  speed_url_before, speedRest >>

\* after the sleep of line 435: the next turn of the loop of line 385 up to
\* its sleep, or the end of the list (the function returns None)
SpeedNextUrl(c) ==
  /\ sd_pc[c] = "next_wait"
  /\ IF sd_k[c] < Len(sd_urls[c])
       THEN /\ sd_k' = [sd_k EXCEPT ![c] = @ + 1]
            /\ original_speed_url' = [original_speed_url EXCEPT ![c] = speed_url]
            /\ speed_url' = sd_urls[c][sd_k[c] + 1]
            /\ sd_retry' = [sd_retry EXCEPT ![c] = 0]
            /\ sd_pc' = [sd_pc EXCEPT ![c] = "switched"]
       ELSE /\ sd_pc' = [sd_pc EXCEPT ![c] = "done"]
            /\ UNCHANGED << sd_k, original_speed_url, speed_url, sd_retry >>
  /\ UNCHANGED << speed_urls, sd_urls, speed_url_before, sd_foreign, speedRest >>

SpeedNext ==
  \/ \E c \in SpeedCalls : SpeedBegin(c)
  \/ \E c \in SpeedCalls, ok \in BOOLEAN : SpeedMeasure(c, ok)
  \/ \E c \in SpeedCalls : SpeedNextUrl(c)

\* the configurations: speed_url is one of the URLs, speed_urls a list of
\* distinct URLs or empty
InitSpeed ==
  /\ EarlyIdle
  /\ NestIdle
  /\ DirectIdle
  /\ RunsIdle
  /\ CollectIdle
  /\ ReportIdle
  /\ ReadIdle
  /\ GenIdle
  /\ speed_url \in SpeedUrlIds
  /\ speed_urls \in {q \in SeqsUpTo(SpeedUrlIds, MaxSpeedUrls) :
                       \A i, j \in 1..Len(q) : q[i] = q[j] => i = j}
  /\ sd_pc = [c \in SpeedCalls |-> "idle"]
  /\ sd_urls = [c \in SpeedCalls |-> << >>]
  /\ sd_k = [c \in SpeedCalls |-> 0]
  /\ original_speed_url = [c \in SpeedCalls |-> 0]
  /\ sd_retry = [c \in SpeedCalls |-> 0]
  /\ speed_url_before = speed_url
  /\ sd_foreign = FALSE

SpecSpeed == InitSpeed /\ [][SpeedNext]_vars

\* ======== the engine configuration of a vless node
\* singbox_runner.py:242-330

Networks == {"tcp", "ws", "grpc", "h2", "xhttp", "httpupgrade"}
Securities == {"none", "tls", "reality"}

\* node.get('sni', node_server), lines 280 and 317
SniOf(node) == IF node.sni = Null THEN node.server ELSE node.sni[1]

\* lines 256-272: the transport block of the network type, none for tcp and
\* for the types the engine does not support (they run as tcp)
vless_transport(network) ==
  CASE network \in {"ws", "websocket"} -> Some("ws")
    [] network = "grpc" -> Some("grpc")
    [] network \in {"h2", "http"} -> Some("http")
    [] OTHER -> Null

\* lines 276-324: the tls block for reality, and for tls or a set tls key
vless_tls(node) ==
  IF node.security = "reality"
    THEN Some([enabled |-> TRUE, server_name |-> SniOf(node),
               reality |-> TRUE, insecure |-> FALSE])
  ELSE IF node.security = "tls" \/ node.tls
    THEN Some([enabled |-> TRUE, server_name |-> SniOf(node),
               reality |-> FALSE, insecure |-> TRUE])
  ELSE Null

\* the vless branch, lines 242-324.  The security handling (lines 275-324)
\* is indented under the branch of line 272 for the unsupported network
\* types: it runs for xhttp, httpupgrade and splithttp only.
vless_outbound(node) ==
  [type |-> "vless", server |-> node.server,
   transport |-> vless_transport(node.network),
   tls |-> IF node.network \in {"xhttp", "httpupgrade", "splithttp"}
             THEN vless_tls(node) ELSE Null]

genRest == << earlyVars, nestVars, directVars, runVars, collectVars, reportVars,
              readVars, speedVars >>

\* _generate_singbox_config for the node, lines 214-260 and 476-480
GenerateConfig ==
  /\ gen_outbound = Null
  /\ gen_outbound' = Some(vless_outbound(gen_node))
  /\ UNCHANGED << gen_node, genRest >>

GenNext == GenerateConfig

InitGen ==
  /\ EarlyIdle
  /\ NestIdle
  /\ DirectIdle
  /\ RunsIdle
  /\ CollectIdle
  /\ ReportIdle
  /\ ReadIdle
  /\ SpeedIdle
  /\ gen_node \in {VlessNode(n, s, t, sni) :
                     n \in Networks, s \in Securities, t \in BOOLEAN,
                     sni \in {Null, Some("sni")}}
  /\ gen_outbound = Null

SpecGen == InitGen /\ [][GenNext]_vars


\* ------------------------------------------------- claims on SpecPool

\* every Result the pool has emitted so far, collected or still queued
Emitted == results \o SelectSeq(result_queue, LAMBDA r : r # NoneResult)

SuccessesEmitted == Cardinality({i \in 1..Len(Emitted) : Emitted[i].status = "success"})

\* C1 (as stated): with success_limit = K > 0 the pool emits at most K Results
\* with status = success.
C1_AtMostKSuccesses ==
  success_limit > 0 => SuccessesEmitted <= success_limit

\* C1 (amended): with success_limit = K > 0 the pool emits at most
\* K + (number of workers - 1) Results with status = success, the workers being
\* min(worker_count, len(nodes)): each worker other than the one that recorded
\* the Kth success may still finish the test it has in flight.
C1_SuccessesBoundedByCapPlusWorkers ==
  (success_limit > 0 /\ rpc # "init") =>
     SuccessesEmitted <= success_limit + Cardinality(workers) - 1

\* C1 witness: a capped run has returned with the cap overshot by a second worker
C1_Witness ==
  /\ rpc = "returned"
  /\ success_limit > 0
  /\ Cardinality(workers) = 2
  /\ SuccessesEmitted = success_limit + 1

\* ------------------------------------------------- claims on SpecTest

AttemptOver == tpc \in {"returned", "cancelled"}

\* a run has ended: the attempt is over, or the signal-triggered cleanup_all
\* has completed
RunEnded == AttemptOver \/ cleanup_pc = "done"

\* C2 (as stated): when a run has ended, by normal completion or by a
\* signal-triggered cleanup_all while a test is in flight, no engine
\* subprocess is alive and no port is allocated.
C2_NoEngineNoPortAfterRun ==
  RunEnded => /\ process # "running"
              /\ DOMAIN allocated_ports = {}

\* C3 (as stated): when a test attempt has ended, by success, error or
\* cancellation at any suspension point, the engine it spawned is not running
\* and its port is not allocated.
C3_RunnerReleasesOnEveryPath ==
  AttemptOver => /\ process # "running"
                 /\ (socks_port # Null => socks_port[1] \notin nt_used_ports)

\* C4 (as stated): for every Result test_single_node returns, the temp
\* configuration file written for the attempt no longer exists.
C4_NoTempFileAfterResult ==
  tpc = "returned" => config_file # "exists"

\* ------------------------------------------------- claims on SpecPort

\* C5 (as stated): a port released at time t is not returned by an allocation
\* before t + recycle_delay, under any sequence of allocate, release and
\* cleanup operations.
C5_NoReuseBeforeRecycleDelay ==
  \A p \in DOMAIN allocated_ports :
     p \in DOMAIN release_log
        => allocated_ports[p].allocated_at >= release_log[p].at + RecycleDelay

\* C5 (amended): a port released at time t is not returned by an allocation
\* before t + recycle_delay unless cleanup_all ran after the release (cleanup_all
\* clears the cooldown map, after which the port is eligible at once).
C5_NoReuseBeforeRecycleDelayUnlessCleaned ==
  \A p \in DOMAIN allocated_ports :
     (p \in DOMAIN release_log /\ ~release_log[p].cleaned)
        => allocated_ports[p].allocated_at >= release_log[p].at + RecycleDelay

\* C5 witness: a port is allocated again after its release, with no cleanup
\* in between
C5_Witness ==
  \E p \in DOMAIN allocated_ports :
     /\ p \in DOMAIN release_log
     /\ ~release_log[p].cleaned
     /\ allocated_ports[p].allocated_at > release_log[p].at

\* ------------------------------------------------- claims on SpecNodePorts

\* C6 (as stated): allocation returns only a port that is not allocated, not
\* cooling and not bound at OS level, so no two running test attempts hold the
\* same loopback port.
C6_AllocatedPortIsFreeAndExclusive ==
  \A h \in Holders : hpc[h] = "testing" =>
     /\ hold[h][1] \notin os_bound
     /\ \A g \in Holders \ {h} : hpc[g] = "testing" => hold[g] # hold[h]

\* ------------------------------------------------- claims on SpecTest

\* C7 (as stated): at every moment the process registry equals the set of
\* running engine subprocesses the core spawned.
C7_RegistryEqualsRunningEngines ==
  active_processes = (IF process = "running" THEN {"engine"} ELSE {})

\* C8: every Result test_single_node returns has a latency when its status is
\* success, and has status success when it has a download speed.
C8_SuccessHasLatency ==
  tpc = "returned" =>
    /\ (result.status = "success" => result.http_latency # Null)
    /\ (result.download_speed # Null => result.status = "success")

\* C8 witness: a success Result with a latency and a download speed
C8_Witness ==
  /\ tpc = "returned"
  /\ result.status = "success"
  /\ result.http_latency # Null
  /\ result.download_speed # Null

\* C9 (as stated): in every Result the error field is populated if and only if
\* status = failed.
C9_ErrorIffFailed ==
  tpc = "returned" => (result.error # Null <=> result.status = "failed")

\* C9 (amended): in every Result a failed status comes with a populated error
\* field, and a success status comes with a populated error field exactly when
\* the download speed is null (the note "Speed test failed but connectivity OK").
C9_ErrorOnFailedOrSpeedless ==
  tpc = "returned" =>
    /\ (result.status = "failed" => result.error # Null)
    /\ (result.status = "success" =>
          (result.error # Null <=> result.download_speed = Null))

\* C9 witness: a failed Result carrying the text of a caught exception, the
\* case the except clause decides
C9_Witness ==
  /\ tpc = "returned"
  /\ result.status = "failed"
  /\ result.error = Some("probe exception")

\* a Stage A method would succeed for the node: the direct probe or the SOCKS5
\* CONNECT measures a latency, the latency URL answers with a status < 500
WouldSucceed(n) ==
  \/ n.direct # Null
  \/ n.socks5 # Null
  \/ (n.http # Null /\ n.http[1].status < 500)

\* C10 (as stated): a Result is failed with "All connectivity tests failed"
\* exactly when all three Stage A methods fail; a node one of them would
\* succeed for is reported success.  (Stated for the Results Stage A decided:
\* the engine ran until the runner terminated it and no exception was caught.)
C10_FailedOnlyWhenAllThreeFail ==
  (/\ tpc = "returned"
   /\ process = "terminated"
   /\ (result.status = "success"
         \/ result.error = Some("All connectivity tests failed")))
     => (result.error = Some("All connectivity tests failed") <=> ~WouldSucceed(net))

\* C11 (as stated): a test attempt interrupted by cancellation yields a Result
\* with status = failed and error "cancelled".
C11_CancelledAttemptYieldsFailedResult ==
  (AttemptOver /\ cancels > 0) =>
     /\ tpc = "returned"
     /\ result.status = "failed"
     /\ result.error = Some("cancelled")

\* ------------------------------------------------- claims on SpecPool

\* C12 (as stated): a failure inside one node's test is confined to that node:
\* when a test failed (a failed Result, or an Exception the worker caught),
\* the worker goes on and run_tests still returns the Results of all other
\* nodes, so no Result of a successful node is left behind on the result
\* queue when run_tests returns.
C12_OtherResultsReturnedDespiteFailure ==
  (rpc = "returned" /\ any_failed) =>
     \A i \in 1..Len(result_queue) : result_queue[i].status # "success"

\* ------------------------------------------------- claims on SpecBucket

\* C13 (as stated): with a total speed limit R > 0 every read of the bandwidth
\* stage passes through the token bucket, and the bytes received by all
\* workers in any 1-second window never exceed R * (1 + burst_factor).
C13_WindowWithinRateTimesBurst ==
  window_bytes <= rate * (1 + BurstFactor)

\* ------------------------------------------------- claims on SpecStats

\* C14: the GlobalStats counters are updated atomically. Whenever the lock is
\* free (the states an observer taking the lock can see), no increment of a
\* finished add_bytes or add_node_tested call is lost, under any interleaving
\* of the calling threads, and total_nodes_tested = successful_nodes +
\* failed_nodes.
C14_NoIncrementLost ==
  gs_lock = 0 =>
     /\ total_bytes = done_bytes
     /\ stats.successful_nodes = done_success
     /\ stats.failed_nodes = done_failed
     /\ stats.total_nodes_tested = done_success + done_failed
     /\ stats.total_nodes_tested = stats.successful_nodes + stats.failed_nodes

\* two threads competed for the lock, and calls of both kinds have finished
C14_Witness ==
  /\ gs_lock = 0
  /\ contended
  /\ \A t \in Threads : thr_pc[t] = "idle"
  /\ done_bytes > 0
  /\ done_success > 0
  /\ done_failed > 0

\* ------------------------------------------------- claims on SpecPipe

\* the first occurrence of each (server, port, type) triple, in input order
FirstOccurrences(q) ==
  LET keep == { i \in 1..Len(q) : \A j \in 1..(i - 1) : Triple(q[j]) # Triple(q[i]) }
      pos[k \in 0..Len(q)] ==
        IF k = 0 THEN << >>
        ELSE IF k \in keep THEN Append(pos[k - 1], q[k]) ELSE pos[k - 1]
  IN pos[Len(q)]

\* C15 (as stated): deduplication is a stable, order-preserving filter keeping
\* exactly the first occurrence of each (server, port, type) triple: the nodes
\* handed to the Go stage are the first occurrences, in input order, and no
\* two of them share a triple.
C15_DedupKeepsFirstOccurrencesInOrder ==
  main_pc = "go" =>
     /\ unique_nodes = FirstOccurrences(all_nodes)
     /\ \A i, j \in 1..Len(unique_nodes) :
          i # j => Triple(unique_nodes[i]) # Triple(unique_nodes[j])

\* C20 (as stated): a pipeline run that completes with zero nodes (an empty
\* subscription file, or only lines of unsupported schemes) exits with code
\* 0; exit code 1 is produced only by a pipeline error and 130 only by a user
\* interrupt.
C20_ZeroNodesExitZero ==
  main_pc = "exited" =>
     /\ (run_result # Null /\ go_executable /\ Len(unique_nodes) = 0
           => exit_code = Some(0))
     /\ (exit_code = Some(1) => pipeline_error)
     /\ (exit_code = Some(130) => interrupted)

\* ------------------------------------------------- claims on SpecParse

\* the nodes the finished call returned
ReturnedNodes ==
  IF parse_pc = "url_done"
    THEN (IF parsed.node = Null THEN {} ELSE {parsed.node[1]})
    ELSE IF parse_pc = "clash_done" THEN Range(clash_out.nodes) ELSE {}

\* C16 (as stated): every Node the parsers return (parse_node_url and
\* parse_clash_proxies) has a port with 1 <= port <= 65535; an input whose
\* port is <= 0 or > 65535 is discarded.
C16_ReturnedPortInRange ==
  \A n \in ReturnedNodes : n.port >= 1 /\ n.port <= MaxPort

\* C17 (as stated): parse_node_url returns a Node only for the four supported
\* families, with type in {shadowsocks, vmess, vless, trojan}; a URI of any
\* other scheme and a comment line yield no Node.
C17_OnlyFourFamilies ==
  parse_pc = "url_done" =>
     /\ (parsed.node # Null =>
           parsed.node[1].type \in {"shadowsocks", "vmess", "vless", "trojan"})
     /\ (url.scheme \notin {"ss", "vmess", "vless", "trojan"} => parsed.node = Null)

\* a structured entry parse_clash_proxies supports and that lacks nothing
WellFormed(p) ==
  /\ p.shape = "dict"
  /\ p.type \in {"vmess", "vless", "trojan"}
  /\ p.keys = "ok"
  /\ p.port.text = "digits"
  /\ p.port.value >= 1
  /\ p.port.value <= MaxPort

\* C18 (as stated): one malformed entry never aborts parsing of the rest:
\* parse_node_url yields no node rather than raising, for every input, and
\* parse_clash_proxies skips a bad entry (non-numeric port, missing key, wrong
\* shape) and still returns the Nodes of all well-formed entries of the list.
C18_MalformedEntryNeverAborts ==
  /\ (parse_pc = "url_done" => ~parsed.raised)
  /\ (parse_pc = "clash_done" =>
        /\ ~clash_out.raised
        /\ \A i \in 1..Len(proxies) :
             WellFormed(proxies[i]) =>
                [type |-> proxies[i].type, port |-> proxies[i].port.value]
                   \in Range(clash_out.nodes))

\* ------------------------------------------------- claims on SpecRank

\* speed descending and, at equal speed, latency ascending
Ranked(q) ==
  \A i, j \in 1..Len(q) :
     i < j => \/ q[i].speed > q[j].speed
              \/ (q[i].speed = q[j].speed /\ q[i].latency <= q[j].latency)

\* C19 (as stated): the ranker orders the successful Results by speed
\* descending and, among Results of equal speed, by latency ascending, so
\* that the order depends on the Result values only, not on the order in
\* which they arrived.
C19_RankedBySpeedThenLatency ==
  /\ ("top" \in rank_done => Ranked(top_nodes))
  /\ ("summary" \in rank_done => Ranked(summary_top))

\* ------------------------------------------------- claims on SpecPool

\* the Results waiting on the result queue
QueuedResults == SelectSeq(result_queue, LAMBDA r : r # NoneResult)

\* C21 (as stated): run_tests returns exactly the Results the workers emitted:
\* every Result put on the result queue is in the returned list, and the
\* collector never stops while a worker is still running or a Result is still
\* queued.
C21_ReturnsExactlyTheEmittedResults ==
  /\ (rpc = "returned" => QueuedResults = << >>)
  /\ (cpc = "done" =>
        /\ \A w \in workers : wpc[w] = "exit"
        /\ QueuedResults = << >>)

\* C22: after stop() has set force_stop no worker begins another test (a
\* worker that dequeues a task exits, a worker in a test finishes only that
\* test) and the distributor feeds no further node.
C22_NoNewTestAfterStop ==
  [][force_stop =>
       /\ \A w \in WorkerIds : wpc'[w] = "testing" => wpc[w] = "testing"
       /\ dist_index' = dist_index
       /\ started' = started]_vars

\* the real tasks still on the task queue
QueuedTasks == SelectSeq(task_queue, LAMBDA t : t # NoneTask)

\* C22 witness: without a cap, a stopped run has returned and a node that was
\* fed was dequeued by a worker that left without testing it
C22_Witness ==
  /\ rpc = "returned"
  /\ force_stop
  /\ success_limit = 0
  /\ Len(started) > 0
  /\ Len(started) + Len(QueuedTasks) < dist_index

\* the cap as the claims state it: K > 0 successes have been counted
CapReached == success_limit > 0 /\ successful_count >= success_limit

\* C25: once successful_count has reached success_limit (K > 0) no worker
\* starts a new test; each worker only finishes the test it has in flight, so
\* at most worker_count - 1 tests complete after the Kth success.
C25_NoNewTestAfterCap ==
  /\ [][CapReached =>
          /\ \A w \in WorkerIds : wpc'[w] = "testing" => wpc[w] = "testing"
          /\ started' = started]_vars
  /\ [](after_cap <= worker_count - 1)

\* C25 witness: with two workers, the second worker's test completed after the
\* cap had been reached, and the run returned
C25_Witness ==
  /\ rpc = "returned"
  /\ CapReached
  /\ worker_count = 2
  /\ after_cap = 1

\* ------------------------------------------------- claims on SpecPoolLive

\* C26: run_tests eventually returns, for every node list (the empty one
\* too), every worker_count >= 1, every success_limit >= 0 and every moment
\* at which stop() may be called, provided each test call returns or raises.
C26_RunTestsEventuallyReturns == <>(rpc = "returned")

\* C26 witness: a run with two workers, stopped on the way, has returned: the
\* distributor sent a marker per worker and the workers and the collector are
\* done
C26_Witness ==
  /\ rpc = "returned"
  /\ force_stop
  /\ Cardinality(workers) = 2
  /\ dist_sent = 2
  /\ cpc = "done"
  /\ \A w \in workers : wpc[w] = "exit"

\* ------------------------------------------------- claims on SpecPool

\* neither the cap nor stop() has intervened
NoIntervention == ~force_stop /\ ~CapReached

\* C27: every node is dequeued and tested at most once, tests are started in
\* input order, and when neither the success cap nor stop() intervenes every
\* node is tested exactly once: no end-of-stream marker is consumed before all
\* tasks are.
C27_EachNodeTestedOnceInOrder ==
  /\ \A i, j \in 1..Len(started) : i < j => started[i] < started[j]
  /\ (NoIntervention /\ \E w \in workers : wpc[w] = "exit") =>
        (dist_index = num_nodes /\ QueuedTasks = << >>)
  /\ (NoIntervention /\ rpc = "returned") =>
        started = [i \in 1..num_nodes |-> i]

\* C27 witness: two workers have tested two nodes, one each, and the run
\* returned with neither cap nor stop
C27_Witness ==
  /\ rpc = "returned"
  /\ NoIntervention
  /\ Cardinality(workers) = 2
  /\ started = << 1, 2 >>

\* C23: within one node's test the stages run in the order A, B, C: Stage B
\* (egress IP) is entered only from the last Stage A probe and with a latency
\* recorded, Stage C (bandwidth) is entered only from Stage B, no Stage A
\* probe runs after B or C, and the Stage B step leaves the status as it was
\* and, unless the task is cancelled, goes on to Stage C whatever
\* check_ip_purity returned
C23_StagesInOrder ==
  [][/\ (tpc' = "ip_check" /\ tpc # "ip_check")
          => (tpc \in {"socks5", "http"} /\ result'.http_latency # Null)
     /\ (tpc' = "speed" /\ tpc # "speed") => tpc = "ip_check"
     /\ tpc \in {"ip_check", "speed"} => tpc' \notin {"direct", "socks5", "http"}
     /\ tpc = "ip_check" => result'.status = result.status
     /\ (tpc = "ip_check" /\ tpc' # "ip_check" /\ cancels' = cancels)
          => tpc' = "speed"]_vars

\* a finished test whose Stage B found no IP category and whose Stage C ran:
\* the Result is a success with a latency and a speed
C23_Witness ==
  /\ tpc = "returned"
  /\ result.ip_purity = Null
  /\ result.http_latency # Null
  /\ result.download_speed # Null
  /\ result.status = "success"

\* C30: when both Stage A probes succeeded the recorded latency is the
\* smaller of the two
C30_SmallestLatencyRecorded ==
  (tpc \in {"ip_check", "speed"}
     /\ direct_latency # Null /\ socks5_latency # Null)
  => result.http_latency = Some(Min(direct_latency[1], socks5_latency[1]))

\* the two complete teardowns of a running engine
PoliteTeardown == << "terminate", "exited", "pipes_closed", "config_deleted" >>
ForcedTeardown ==
  << "terminate", "timeout", "kill", "pipes_closed", "config_deleted" >>

IsPrefix(a, b) == Len(a) <= Len(b) /\ a = SubSeq(b, 1, Len(a))

LastNodePort(idx) ==
  IF idx + MaxAttempts > FallbackRange
    THEN BasePort + idx + MaxAttempts - 1
    ELSE BasePort + FallbackRange - 1

NextOp(t) ==
  LET prog == Program(co_prog[t])
  IN IF co_pc[t] \in 1..Len(prog) THEN prog[co_pc[t]] ELSE Op("return", "none")

\* C29: a task inside the "async with" of the port lock, the port-manager
\* lock or the registry lock is the task the event loop is running, it is
\* not suspended, and what it does next is plain computation or the release
\* of the lock, never a sleep, a wait or another acquisition
C29_NoLockAcrossSuspension ==
  \A t \in Tasks, l \in Locks :
    lk_holder[l] = t
    => /\ running = t
       /\ ~co_asleep[t]
       /\ NextOp(t).kind \in {"sync", "release"}

\* a task sleeps at the end of _release_port while another one is inside
\* the section of the same lock
C29_Witness ==
  \E t, u \in Tasks :
    /\ co_prog[t] = "NodeTester_release_port"
    /\ co_asleep[t]
    /\ lk_holder["port_lock"] = u
    /\ u # t

\* ------------------------------------------------- claims on SpecTest
\* the step with which the HTTP probe of Stage A returns to test_single_node
HttpProbeReturns ==
  /\ tpc = "http"
  /\ tpc' # "http"
  /\ exc' = exc
  /\ cancels' = cancels

\* C31 (as stated): the HTTP probe through the engine returns a latency when
\* the latency URL answers with a status below 500, and returns None only
\* when it does not answer so
C31_HttpProbeSucceedsBelow500 ==
  [][HttpProbeReturns
       => (result'.http_latency # Null
             <=> /\ through_engine(net.http) # Null
                 /\ through_engine(net.http)[1].status < 500)]_vars

\* ------------------------------------------------- claims on SpecNest
\* C32 (as stated): nested-subscription expansion is bounded to depth 1 (the
\* body handed in and at most one level of bodies it names) and the parse
\* returns for every body, also for one that names its own URL or is part of
\* a cycle of subscription URLs
C32_NestingBoundedToDepthOne ==
  /\ Len(px_stack) <= 2
  /\ px_pc # "recursion_error"

\* ------------------------------------------------- claims on SpecDirect
\* C33 (as stated): the direct probe returns a latency only if the TCP
\* connection of its last attempt was established, a reply or a read timeout
\* after an established connection returns a latency, and a connect that
\* failed (refused, unreachable, DNS failure, timeout) returns None
C33_ReachableOnlyIfConnected ==
  (dp_pc = "returned" /\ dp_attempt > 0)
  => /\ dp_result # Null => dp_event.connect = "established"
     /\ (dp_event.connect = "established"
           /\ dp_event.after \in {"reply", "read_timeout"}) => dp_result # Null

\* ------------------------------------------------- claims on SpecRuns
\* C34 (as stated): when a run_tests call has returned, total_nodes_tested
\* of global_stats is the number of nodes tested in that run (the tests the
\* workers of the run counted), in the first run of the process and in a
\* later one
C34_StatsCountThisRunOnly ==
  rpc = "returned" => stats.total_nodes_tested = progress

\* ------------------------------------------------- claims on SpecCollect
\* the cumulative node count reached max_nodes while tasks were outstanding
CapReachedEarly ==
  /\ cmain = "returned"
  /\ collected >= max_nodes
  /\ consumed < num_urls

\* C35: collect_nodes_concurrently never has more than `concurrency` fetches
\* in flight, the list it returns has at most max_nodes nodes, and when it
\* returns no task is left running: each one is done or has been cancelled,
\* so after a cap reached early every outstanding fetch is cancelled and
\* nothing is collected any more
C35_BoundedFetchesAndCap ==
  /\ Cardinality(InFlight) <= concurrency
  /\ Cardinality(InFlight) + semaphore = (IF cmain = "idle" THEN 0 ELSE concurrency)
  /\ cmain = "returned"
       => /\ collect_out <= max_nodes
          /\ collect_out <= collected
          /\ \A u \in FetchUrls :
               tasks[u] \in {"none", "done", "cancelling", "cancelling_fetch",
                             "cancelled"}

\* the cap was reached with a fetch in flight and a task still waiting for
\* the semaphore: both were cancelled and max_nodes nodes were returned
C35_Witness ==
  /\ CapReachedEarly
  /\ collect_out = max_nodes
  /\ \E u, v \in FetchUrls :
       /\ tasks[u] = "cancelling_fetch"
       /\ tasks[v] = "cancelling"

\* ------------------------------------------------- claims on SpecReportLive
\* C36 (as stated): after run_tests has returned, start_reporting eventually
\* returns, whichever way the pool finished
C36_ReporterEventuallyReturns == (rpc = "returned") ~> (rep_pc = "returned")

\* ------------------------------------------------- claims on SpecRead
\* a thread is about to enter a with block whose lock it holds itself: the
\* acquire can never succeed
BlockedOnOwnLock(t) ==
  /\ rd_op[t] # "idle"
  /\ rd_at[t] <= Len(ReadProgram(rd_op[t]))
  /\ ReadProgram(rd_op[t])[rd_at[t]].kind = "acquire"
  /\ Holder(ReadProgram(rd_op[t])[rd_at[t]].lock) = t

\* C37 (as stated): no read operation of the statistics objects blocks on a
\* lock the calling thread already holds, so that each of them completes and
\* releases its lock
C37_NoReadBlocksOnOwnLock == \A t \in Threads : ~BlockedOnOwnLock(t)

\* ------------------------------------------------- claims on SpecSpeed
\* C38 (as stated): _test_download_speed calls sharing one configuration do
\* not interfere: every measurement downloads from the test_url of its own
\* call, and when every call that began has finished speed_url is what it
\* was before any call began
C38_SpeedCallsDoNotInterfere ==
  /\ ~sd_foreign
  /\ (\A c \in SpeedCalls : sd_pc[c] \in {"idle", "done"})
       => speed_url = speed_url_before

\* ------------------------------------------------- claims on SpecGen
\* C39 (as stated): for a vless node whose security is tls or reality the
\* outbound of the generated configuration has a tls block with enabled true
\* and server_name the node's sni, whatever the network type
C39_VlessTlsBlockPresent ==
  (gen_outbound # Null /\ gen_node.security \in {"tls", "reality"})
  => /\ gen_outbound[1].tls # Null
     /\ gen_outbound[1].tls[1].enabled
     /\ gen_outbound[1].tls[1].server_name = SniOf(gen_node)

\* ------------------------------------------------- claims on SpecBooks
\* no port is in PortManager.allocated_ports and in released_ports
PortManagerBooksDisjoint ==
  DOMAIN allocated_ports \cap DOMAIN released_ports = {}

\* no port is in NodeTester._used_ports and in _released_ports (this also
\* holds on SpecNodePorts, with concurrent attempts)
NodeTesterBooksDisjoint ==
  nt_used_ports \cap DOMAIN nt_released_ports = {}

\* C40: no port is both leased and cooling: PortManager.allocated_ports and
\* released_ports have no port in common, and neither have
\* NodeTester._used_ports and _released_ports, after any sequence of
\* allocate, release and cleanup operations
C40_LeasedAndCoolingDisjoint ==
  PortManagerBooksDisjoint /\ NodeTesterBooksDisjoint

\* the NodeTester book holds a leased port next to a cooling one (an attempt
\* released its port twice and the next attempt has allocated), and the
\* PortManager book holds a cooling port
C40_Witness ==
  /\ hpc[1] = "testing"
  /\ nt_used_ports # {}
  /\ DOMAIN nt_released_ports # {}
  /\ DOMAIN released_ports # {}
====
